---- MODULE Spec2Model ----
(***************************************************************************)
(* Transaction classification engine of the Base wallet tracker:           *)
(* TokenUtils.getTokenInfo, parseTransferEvents, detectSwap and            *)
(* analyzeTransaction (src/src/tokenUtils.js), and the wrapper             *)
(* BlockchainService.analyzeTransaction.                                   *)
(*                                                                         *)
(* A behaviour follows one analyzeTransaction call on a freshly built      *)
(* TokenUtils (empty token cache): the two provider reads, one loop        *)
(* iteration per receipt log with the metadata resolution it awaits, the   *)
(* classification, and the return through the service.                     *)
(*                                                                         *)
(* Representation.  Every JavaScript value is a record with a kind, so     *)
(* that null, undefined and a thrown error compare with any other value.   *)
(* A BigInt holds its decimal digits (most significant first, <<0>> for    *)
(* zero), since wei amounts exceed the checker's integers; a string of     *)
(* digits is a sequence of one-character strings.  An address string       *)
(* holds id, naming the 20 bytes, and form, the letter case of its text.   *)
(***************************************************************************)
EXTENDS Integers, Sequences, FiniteSets, TLC

\* ------------------------------------------------------------------ bounds
\* Longest receipt log list the provider hands back to analyzeTransaction.
MaxLogs == 3
\* Longest receipt log list in the runs that inject every read failure.
MaxFaultLogs == 2

\* ------------------------------------------------------- JavaScript values
Null == [kind |-> "null"]
Undefined == [kind |-> "undefined"]
\* An exception travelling up the stack (a rejected promise).
Thrown == [kind |-> "thrown"]

\* ---------------------------------------------------------------- addresses
\* lower: all hex letters lowercase; upper: all uppercase; checksum: the
\* EIP-55 casing; mixed: mixed case that is not the EIP-55 casing.
Forms == {"lower", "upper", "checksum", "mixed"}

Addr(i, f) == [kind |-> "addr", id |-> i, form |-> f]

\* String.prototype.toLowerCase on an address string.
ToLowerCase(a) == [a EXCEPT !.form = "lower"]

\* A topic slot too short to hold 40 hex characters after slice(26).
ShortTopic == [kind |-> "shortTopic"]

\* '0x' + topic.slice(26): the address text in the topic's letter case.
TopicAddress(topic) ==
    IF topic.kind = "addr" THEN topic ELSE [kind |-> "badAddressText"]

\* ethers.getAddress: the EIP-55 form of a well-formed address; throws on
\* text that is not 40 hex characters and on mixed case with a wrong
\* checksum.
GetAddress(text) ==
    IF text.kind # "addr" THEN Thrown
    ELSE IF text.form = "mixed" THEN Thrown
    ELSE [text EXCEPT !.form = "checksum"]

\* --------------------------------------------------- BigInt and formatting
BigInt(ds) == [kind |-> "bigint", digits |-> ds]

DigitChar(d) ==
    CASE d = 0 -> "0" [] d = 1 -> "1" [] d = 2 -> "2" [] d = 3 -> "3"
      [] d = 4 -> "4" [] d = 5 -> "5" [] d = 6 -> "6" [] d = 7 -> "7"
      [] d = 8 -> "8" [] d = 9 -> "9"

\* BigInt.prototype.toString(): the decimal text of the value.
BigIntToString(n) == [i \in 1 .. Len(n.digits) |-> DigitChar(n.digits[i])]

RECURSIVE Zeros(_)
Zeros(k) == IF k = 0 THEN <<>> ELSE <<0>> \o Zeros(k - 1)

\* The BigInt ds * 10^k for the digits ds of a positive number.
ScaleUp(ds, k) == BigInt(ds \o Zeros(k))

RECURSIVE PadLeft(_, _)
PadLeft(str, decimals) ==
    IF Len(str) <= decimals THEN PadLeft(<<"0">> \o str, decimals) ELSE str

RECURSIVE TrimWhole(_)
TrimWhole(str) ==
    IF Len(str) >= 2 /\ str[1] = "0" /\ str[2] # "."
    THEN TrimWhole(Tail(str)) ELSE str

RECURSIVE TrimFraction(_)
TrimFraction(str) ==
    IF Len(str) >= 2 /\ str[Len(str)] = "0" /\ str[Len(str) - 1] # "."
    THEN TrimFraction(SubSeq(str, 1, Len(str) - 1)) ELSE str

\* Mutant: the fraction is cut to 6 places, as a float would round it.
FormatUnits_SixPlaces(value, decimals) ==
    IF decimals = 0 THEN BigIntToString(value)
    ELSE LET padded == PadLeft(BigIntToString(value), decimals)
             index == Len(padded) - decimals
             last == IF decimals > 6 THEN index + 6 ELSE Len(padded)
             pointed == SubSeq(padded, 1, index) \o <<".">>
                        \o SubSeq(padded, index + 1, last)
         IN TrimFraction(TrimWhole(pointed))

\* ethers.formatUnits(value, decimals) for a non-negative value: the decimal
\* text with the point `decimals` places from the right, leading zeros of
\* the whole part and trailing zeros of the fraction removed, one digit
\* kept on each side; no point at all when decimals is 0.
FormatUnits(value, decimals) ==
    IF decimals = 0 THEN BigIntToString(value)
    ELSE LET padded == PadLeft(BigIntToString(value), decimals)
             index == Len(padded) - decimals
             pointed == SubSeq(padded, 1, index) \o <<".">>
                        \o SubSeq(padded, index + 1, Len(padded))
         IN TrimFraction(TrimWhole(pointed))

\* ethers.formatEther(wei) is formatUnits(wei, 18).
EtherDecimals == 18
FormatEther(wei) == FormatUnits(wei, EtherDecimals)

\* JavaScript truthiness of tx.value: undefined, null and 0n are falsy.
Truthy(v) == v.kind = "bigint" /\ v.digits # <<0>>

\* ------------------------------------------------------ token metadata
\* ERC-20 contracts deployed on the chain and what their view functions
\* answer when the call succeeds.
TokenIds == {"tokA", "tokB"}

OnChainSymbol(id) == IF id = "tokA" THEN "AAA" ELSE "BBB"
OnChainName(id) == IF id = "tokA" THEN "Token A" ELSE "Token B"
OnChainDecimals(id) == IF id = "tokA" THEN 18 ELSE 6

SentinelSymbol == "UNKNOWN"
SentinelName == "Unknown Token"
SentinelDecimals == 18

\* The outcome of one resolution's network calls: whether building the
\* contract object throws, and whether each of symbol(), name() and
\* decimals() answers (TRUE) or rejects (FALSE).
ReadOutcomes ==
    [ctor : BOOLEAN, symbol : BOOLEAN, name : BOOLEAN, decimals : BOOLEAN]

AllReadsSucceed ==
    [ctor |-> TRUE, symbol |-> TRUE, name |-> TRUE, decimals |-> TRUE]

\* Mutant: the fallback is never substituted.
CatchRead_NoFallback(ok, value, fallback) == value

\* promise.catch(() => fallback): the value read, or the fallback when the
\* read rejected.
CatchRead(ok, value, fallback) == IF ok THEN value ELSE fallback

SentinelInfo(tokenAddress) ==
    [address |-> tokenAddress, symbol |-> SentinelSymbol,
     name |-> SentinelName, decimals |-> SentinelDecimals]

\* Mutant: one cache slot shared by every token.
CacheKey_OneSlot(tokenAddress) == Addr("tokA", "lower")

\* Mutant: the cache is keyed by the address as given.
CacheKey_AsGiven(tokenAddress) == tokenAddress

\* tokenAddress.toLowerCase(): the key of the token cache.
CacheKey(tokenAddress) == ToLowerCase(tokenAddress)

\* Lines 51-62: the three reads, each with its own catch, and the tokenInfo
\* literal built from them.
BuildTokenInfo(tokenAddress, rd) ==
    [address |-> tokenAddress,
     symbol |-> CatchRead(rd.symbol, OnChainSymbol(tokenAddress.id),
                          SentinelSymbol),
     name |-> CatchRead(rd.name, OnChainName(tokenAddress.id),
                        SentinelName),
     decimals |-> CatchRead(rd.decimals, OnChainDecimals(tokenAddress.id),
                            SentinelDecimals)]

\* getTokenInfo(tokenAddress) on cache `cache` when the network answers
\* `rd`.  Returns the TokenInfo (or Thrown), the cache afterwards and the set
\* of fields whose read was made and rejected.
GetTokenInfo(cache, tokenAddress, rd) ==
    IF tokenAddress.kind # "addr"
    THEN [info |-> Thrown, cache |-> cache, failed |-> {}, reads |-> 0]
    ELSE LET key == CacheKey(tokenAddress) IN
         IF key \in DOMAIN cache
         THEN [info |-> cache[key], cache |-> cache, failed |-> {}, reads |-> 0]
         ELSE IF ~rd.ctor
         THEN [info |-> SentinelInfo(tokenAddress), cache |-> cache,
               failed |-> {<<tokenAddress.id, "contract">>}, reads |-> 0]
         ELSE LET tokenInfo == BuildTokenInfo(tokenAddress, rd)
              IN [info |-> tokenInfo,
                  cache |-> (key :> tokenInfo) @@ cache,
                  failed |-> {<<tokenAddress.id, f>> :
                                f \in {g \in {"symbol", "name", "decimals"} :
                                         ~rd[g]}},
                  reads |-> 3]

\* ------------------------------------------------------------ receipt logs
\* ethers.id('Transfer(address,address,uint256)') and the hash of another
\* event signature.
TransferTopic == [kind |-> "sig", event |-> "Transfer"]
ApprovalTopic == [kind |-> "sig", event |-> "Approval"]

\* Data that BigInt() rejects.
BadData == [kind |-> "badData"]

\* log.topics[i] (JavaScript index i, from 0): undefined past the end.
TopicAt(log, i) ==
    IF i + 1 <= Len(log.topics) THEN log.topics[i + 1] ELSE Undefined

\* topic.slice(26) throws on undefined.
SliceAddress(topic) ==
    IF topic = Undefined THEN Thrown ELSE GetAddress(TopicAddress(topic))

\* BigInt(log.data).
ToBigInt(data) == IF data.kind = "bigint" THEN data ELSE Thrown

\* Mutant: decodes every log with three topics, whatever its signature.
DecodeLog_AnyEvent(log) ==
    LET from == SliceAddress(TopicAt(log, 1))
        to == SliceAddress(TopicAt(log, 2))
        value == ToBigInt(log.data)
    IN IF from = Thrown \/ to = Thrown \/ value = Thrown THEN Thrown
       ELSE [kind |-> "decoded", from |-> from, to |-> to, value |-> value]

\* Lines 88-93 of parseTransferEvents on one log: "skip" when the first
\* topic is not the Transfer signature, Thrown when a field does not decode,
\* else the decoded from, to and value.
DecodeLog(log) ==
    IF TopicAt(log, 0) # TransferTopic THEN [kind |-> "skip"]
    ELSE LET from == SliceAddress(TopicAt(log, 1))
             to == SliceAddress(TopicAt(log, 2))
             value == ToBigInt(log.data)
         IN IF from = Thrown \/ to = Thrown \/ value = Thrown THEN Thrown
            ELSE [kind |-> "decoded", from |-> from, to |-> to,
                  value |-> value]

\* The TransferEvent pushed for a decoded log and its token's metadata.
TransferEvent(log, d, tokenInfo) ==
    [tokenAddress |-> log.address,
     tokenSymbol |-> tokenInfo.symbol,
     tokenName |-> tokenInfo.name,
     decimals |-> tokenInfo.decimals,
     from |-> d.from,
     to |-> d.to,
     value |-> d.value,
     valueFormatted |-> FormatUnits(d.value, tokenInfo.decimals)]

\* Mutant: the catch block gives up the events decoded so far.
SkipLog_DropAll(transfers) == <<>>

\* The catch block of the per-log try: the log is skipped and the list so
\* far is kept.
SkipLog(transfers) == transfers

\* --------------------------------------------------------- classification
\* KNOWN_DEX_ROUTERS: lowercase router address -> venue name.
KnownDexRouters ==
    (Addr("baseSwapRouter", "lower") :> "BaseSwap")
    @@ (Addr("aerodromeRouter", "lower") :> "Aerodrome")
    @@ (Addr("uniswapV3Router", "lower") :> "Uniswap V3 Router")
    @@ (Addr("sushiSwapRouter", "lower") :> "SushiSwap")
    @@ (Addr("balancerVault", "lower") :> "Balancer")
    @@ (Addr("universalRouter", "lower") :> "Uniswap Universal Router")

\* Mutant: looks the destination up in the letter case the provider gave.
DexName_NoLowerCase(tx) ==
    IF tx.to.kind = "addr" /\ tx.to \in DOMAIN KnownDexRouters
    THEN KnownDexRouters[tx.to] ELSE "Unknown DEX"

\* Lines 141-145 of detectSwap.
DexName(tx) ==
    LET toAddress == IF tx.to.kind = "addr" THEN ToLowerCase(tx.to)
                     ELSE Undefined
    IN IF toAddress # Undefined /\ toAddress \in DOMAIN KnownDexRouters
       THEN KnownDexRouters[toAddress] ELSE "Unknown DEX"

\* Mutant: formats every BigInt value, a zero one too.
EthChange_NoZeroGuard(tx) ==
    IF tx.value.kind = "bigint" THEN FormatEther(tx.value) ELSE <<"0">>

\* tx.value ? ethers.formatEther(tx.value) : '0'
EthChange(tx) == IF Truthy(tx.value) THEN FormatEther(tx.value) ELSE <<"0">>

\* Mutant: compares the checksummed sender with the lowercase wallet.
TokensSent_NoLowerCase(transfers, walletLower) ==
    SelectSeq(transfers, LAMBDA t : t.from = walletLower)

\* Mutant: only transfers of 18-decimals tokens count as sent.
TokensSent_Only18Decimals(transfers, walletLower) ==
    SelectSeq(transfers,
              LAMBDA t : ToLowerCase(t.from) = walletLower /\ t.decimals = 18)

\* transfers.filter(t => t.from.toLowerCase() === walletLower)
TokensSent(transfers, walletLower) ==
    SelectSeq(transfers, LAMBDA t : ToLowerCase(t.from) = walletLower)

\* Mutant: compares the checksummed recipient with the lowercase wallet.
TokensReceived_NoLowerCase(transfers, walletLower) ==
    SelectSeq(transfers, LAMBDA t : t.to = walletLower)

\* Mutant: keeps every transfer, whoever receives it.
TokensReceived_Any(transfers, walletLower) == transfers

\* transfers.filter(t => t.to.toLowerCase() === walletLower)
TokensReceived(transfers, walletLower) ==
    SelectSeq(transfers, LAMBDA t : ToLowerCase(t.to) = walletLower)

\* Mutants: the length test off by one, either way.
MinTransfers_One == 2 - 1
MinTransfers_Zero == 2 - 2
MinTransfers_Three == 2 + 1

\* The minimum number of decoded transfers detectSwap classifies.
MinTransfers == 2

\* Mutant: the wallet argument is compared as given, not lowercased.
DetectSwap_WalletAsGiven(tx, transfers, walletAddress) ==
    LET walletLower == walletAddress
        tokensSent == TokensSent(transfers, walletLower)
        tokensReceived == TokensReceived(transfers, walletLower)
    IN IF Len(transfers) < MinTransfers THEN Null
       ELSE IF Len(tokensSent) = 0 /\ Len(tokensReceived) = 0 THEN Null
       ELSE IF Len(tokensSent) > 0 /\ Len(tokensReceived) > 0
       THEN [type |-> "SWAP", dex |-> DexName(tx),
             tokenIn |-> tokensSent[1], tokenOut |-> tokensReceived[1],
             allTransfers |-> transfers]
       ELSE IF Len(tokensSent) > 0
       THEN [type |-> "SELL", dex |-> DexName(tx),
             tokenSold |-> tokensSent[1], ethReceived |-> EthChange(tx),
             allTransfers |-> transfers]
       ELSE [type |-> "BUY", dex |-> DexName(tx),
             tokenBought |-> tokensReceived[1], ethSpent |-> EthChange(tx),
             allTransfers |-> transfers]

\* detectSwap after parseTransferEvents has returned `transfers`.
DetectSwap(tx, transfers, walletAddress) ==
    LET walletLower == ToLowerCase(walletAddress)
        tokensSent == TokensSent(transfers, walletLower)
        tokensReceived == TokensReceived(transfers, walletLower)
    IN IF Len(transfers) < MinTransfers THEN Null
       ELSE IF Len(tokensSent) = 0 /\ Len(tokensReceived) = 0 THEN Null
       ELSE IF Len(tokensSent) > 0 /\ Len(tokensReceived) > 0
       THEN [type |-> "SWAP", dex |-> DexName(tx),
             tokenIn |-> tokensSent[1], tokenOut |-> tokensReceived[1],
             allTransfers |-> transfers]
       ELSE IF Len(tokensSent) > 0
       THEN [type |-> "SELL", dex |-> DexName(tx),
             tokenSold |-> tokensSent[1], ethReceived |-> EthChange(tx),
             allTransfers |-> transfers]
       ELSE [type |-> "BUY", dex |-> DexName(tx),
             tokenBought |-> tokensReceived[1], ethSpent |-> EthChange(tx),
             allTransfers |-> transfers]

\* Mutant: reports success whatever the receipt says.
StatusText_AlwaysSuccess(receipt) == "Success"

\* receipt.status === 1 ? 'Success' : 'Failed'
StatusText(receipt) == IF receipt.status = 1 THEN "Success" ELSE "Failed"

\* receipt.gasUsed.toString()
GasUsedText(receipt) == BigIntToString(receipt.gasUsed)

\* Mutant: a transaction that is no swap is reported as a plain transfer.
BuildAnalysis_TransferFallback(hash, swapInfo, receipt) ==
    IF swapInfo = Null
    THEN [hash |-> hash, type |-> "TRANSFER",
          gasUsed |-> BigIntToString(receipt.gasUsed),
          status |-> IF receipt.status = 1 THEN "Success" ELSE "Failed"]
    ELSE [gasUsed |-> BigIntToString(receipt.gasUsed),
          status |-> IF receipt.status = 1 THEN "Success" ELSE "Failed"]
         @@ swapInfo
         @@ [hash |-> hash, type |-> swapInfo.type]

\* Lines 210-223 of analyzeTransaction: the object literal
\* {hash, type, ...swapInfo, gasUsed, status}, or null without a swapInfo.
BuildAnalysis(hash, swapInfo, receipt) ==
    IF swapInfo = Null THEN Null
    ELSE [gasUsed |-> GasUsedText(receipt), status |-> StatusText(receipt)]
         @@ swapInfo
         @@ [hash |-> hash, type |-> swapInfo.type]

\* Mutant: the error is rethrown.
AnalyzeCatch_Rethrow == Thrown

\* The catch block of TokenUtils.analyzeTransaction.
AnalyzeCatch == Null

\* BlockchainService.analyzeTransaction: hands the analysis on, null when
\* the inner call threw.
ServiceAnalyze(inner) == IF inner = Thrown THEN Null ELSE inner

IsAnalysis(r) == "type" \in DOMAIN r

\* ------------------------------------------------------------------ inputs
PartyIds == {"wallet", "pool"}

\* Raw amounts: 1 * 10^18 of tokA (18 decimals), 5 * 10^8 of tokB (6).
TransferAmount(t) ==
    IF t = "tokA" THEN ScaleUp(<<1>>, 18) ELSE ScaleUp(<<5>>, 8)

TransferLog(t, f, to) ==
    [address |-> Addr(t, "checksum"),
     topics |-> <<TransferTopic, Addr(f, "lower"), Addr(to, "lower")>>,
     data |-> TransferAmount(t)]

TransferLogs ==
    {TransferLog(t, f, to) : t \in TokenIds, f \in PartyIds, to \in PartyIds}

\* The transfers between the wallet and the pool, and those of tokA that
\* leave the wallet out or stay within it.
SwapLegLogs ==
    {TransferLog(t, "wallet", "pool") : t \in TokenIds}
    \cup {TransferLog(t, "pool", "wallet") : t \in TokenIds}
    \cup {TransferLog("tokA", "pool", "pool"),
          TransferLog("tokA", "wallet", "wallet")}

\* An Approval event: well formed, not a Transfer.
ApprovalLog ==
    [address |-> Addr("tokA", "checksum"),
     topics |-> <<ApprovalTopic, Addr("wallet", "lower"),
                  Addr("pool", "lower")>>,
     data |-> ScaleUp(<<1>>, 18)]

\* Transfer signature with the indexed topics missing: topics[1] is
\* undefined.
NoTopicsLog ==
    [address |-> Addr("tokA", "checksum"), topics |-> <<TransferTopic>>,
     data |-> ScaleUp(<<1>>, 18)]

\* Transfer signature with a recipient topic that holds no address.
ShortTopicLog ==
    [address |-> Addr("tokB", "checksum"),
     topics |-> <<TransferTopic, Addr("wallet", "lower"), ShortTopic>>,
     data |-> ScaleUp(<<5>>, 8)]

\* Transfer signature with data that is no number.
BadDataLog ==
    [address |-> Addr("tokB", "checksum"),
     topics |-> <<TransferTopic, Addr("pool", "lower"),
                  Addr("wallet", "lower")>>,
     data |-> BadData]

\* Transfer of a log whose emitting address is missing.
NoAddressLog ==
    [address |-> Undefined,
     topics |-> <<TransferTopic, Addr("pool", "lower"),
                  Addr("wallet", "lower")>>,
     data |-> ScaleUp(<<1>>, 18)]

MalformedLogs == {NoTopicsLog, ShortTopicLog, BadDataLog, NoAddressLog}

SeqsUpTo(S, n) == UNION {[1 .. k -> S] : k \in 0 .. n}

GasValues == {BigInt(<<2, 1, 0, 0, 0>>), BigInt(<<1, 5, 0, 0, 0, 0>>)}

ReceiptsOver(logs, n, statuses, gas) ==
    [logs : SeqsUpTo(logs, n), status : statuses, gasUsed : gas]

\* tx.value: absent, 0n, 1.5 ether, 0.0005 ether.
TxValues ==
    {Undefined, BigInt(<<0>>), ScaleUp(<<1, 5>>, 17), ScaleUp(<<5>>, 14)}

\* tx.to: a known router, an unlisted contract, null (contract creation).
TxDestinations ==
    {Addr("uniswapV3Router", "checksum"), Addr("pool", "checksum"), Null}

TxsOver(dests, values) == [to : dests, value : values]

Hashes == {"0xhash1"}

\* ------------------------------------------------------------------- state
VARIABLES
    pc,             \* where the analyzeTransaction call stands
    txHash,         \* its arguments
    walletAddress,
    tx,             \* what provider.getTransaction answered
    receipt,        \* what provider.getTransactionReceipt answered
    idx,            \* position of the for-of loop over receipt.logs
    transfers,      \* parseTransferEvents' list so far
    result,         \* what TokenUtils.analyzeTransaction returned
    analysis,       \* what BlockchainService.analyzeTransaction returned
    tokenCache,     \* TokenUtils.tokenCache: lowercase address -> TokenInfo
    faults,         \* history: the failures the environment injected
    summary,        \* what formatTransactionSummary was given and returned
    calls,          \* the getTokenInfo calls made directly, one per caller
    pair,           \* two transactions classified side by side
    scaled,         \* a raw amount and its formatUnits text
    lookup,         \* a getLatestTransactionHashes call and what it returned
    watchedWallets, \* WalletTracker.watchedWallets: chatId -> Set of addresses
    lastChecked,    \* WalletTracker.lastChecked: address -> {balance, txCount}
    file,           \* data/tracked-wallets.json: its parsed content, or absent
    chain,          \* per address: balance, nonce and listed transactions
    runs,           \* the checkWalletChanges runs started so far
    notified,       \* history: the onChangeCallback invocations, in order
    userCalls,      \* history: how many addWallet / removeWallet calls, and the last
    posts           \* the notifications handled and the messages sent for them

\* The state of the WalletTracker and of what surrounds it.
trackerVars == <<watchedWallets, lastChecked, file, chain, runs, notified,
                 userCalls, posts>>

vars == <<pc, txHash, walletAddress, tx, receipt, idx, transfers, result,
          analysis, tokenCache, faults, summary, calls, pair, scaled,
          lookup, trackerVars>>

\* What the steps of an analyzeTransaction call leave alone.
outsideAnalyze == <<summary, calls, pair, scaled, lookup, trackerVars>>

\* The state of the transaction analysis, which the tracker's own steps
\* leave alone.
analysisVars == <<pc, txHash, walletAddress, tx, receipt, idx, transfers,
                  result, analysis, tokenCache, faults, summary, calls, pair,
                  scaled>>

analyzeVars == <<analysisVars, lookup>>

\* An empty Map.
EmptyMap == [k \in {} |-> Null]

\* No notification has been handled yet.
NoPosts == [handled |-> 0, sent |-> <<>>]

\* No addWallet / removeWallet call has been made yet.
NoCalls == [count |-> 0, last |-> Null]

NoFaults == [provider |-> {}, reads |-> {}, logs |-> {}]

Init ==
    /\ pc = "idle"
    /\ txHash = Undefined
    /\ walletAddress = Undefined
    /\ tx = Undefined
    /\ receipt = Undefined
    /\ idx = 0
    /\ transfers = <<>>
    /\ result = Undefined
    /\ analysis = Undefined
    /\ tokenCache = EmptyMap
    /\ faults = NoFaults
    /\ summary = Undefined
    /\ calls = <<>>
    /\ pair = Undefined
    /\ scaled = Undefined
    /\ lookup = Undefined
    /\ watchedWallets = EmptyMap
    /\ lastChecked = EmptyMap
    /\ file = Undefined
    /\ chain = EmptyMap
    /\ runs = <<>>
    /\ notified = <<>>
    /\ userCalls = NoCalls
    /\ posts = NoPosts

\* A caller invokes blockchainService.analyzeTransaction(hash, wallet).
CallAnalyze(wallets) ==
    /\ pc = "idle"
    /\ \E h \in Hashes, w \in wallets :
          /\ txHash' = h
          /\ walletAddress' = w
    /\ pc' = "fetch"
    /\ UNCHANGED <<tx, receipt, idx, transfers, result, analysis,
                   tokenCache, faults>>
    /\ UNCHANGED outsideAnalyze

\* Lines 191-199: Promise.all of getTransaction and getTransactionReceipt.
\* Each answers an object, null (not found) or rejects.
Fetch(txs, receipts) ==
    /\ pc = "fetch"
    /\ \E txr \in txs \cup {Null, Thrown},
          rr \in receipts \cup {Null, Thrown} :
          /\ faults' = [faults EXCEPT !.provider =
                 {"getTransaction rejected" : x \in {1} \cap
                      (IF txr = Thrown THEN {1} ELSE {})}
                 \cup {"getTransactionReceipt rejected" : x \in {1} \cap
                      (IF rr = Thrown THEN {1} ELSE {})}
                 \cup {"transaction not found" : x \in {1} \cap
                      (IF txr = Null THEN {1} ELSE {})}
                 \cup {"receipt not found" : x \in {1} \cap
                      (IF rr = Null THEN {1} ELSE {})}
                 \cup {"receipt without logs" : x \in {1} \cap
                      (IF "logs" \notin DOMAIN rr /\ "status" \in DOMAIN rr
                       THEN {1} ELSE {})}]
          /\ IF txr = Thrown \/ rr = Thrown
             THEN /\ result' = AnalyzeCatch
                  /\ pc' = "done"
                  /\ UNCHANGED <<tx, receipt, idx>>
             ELSE IF txr = Null \/ rr = Null
             THEN /\ result' = Null
                  /\ pc' = "done"
                  /\ UNCHANGED <<tx, receipt, idx>>
             ELSE IF "logs" \notin DOMAIN rr
             THEN \* for (const log of receipt.logs) throws
                  /\ result' = AnalyzeCatch
                  /\ tx' = txr
                  /\ receipt' = rr
                  /\ pc' = "done"
                  /\ UNCHANGED idx
             ELSE /\ tx' = txr
                  /\ receipt' = rr
                  /\ idx' = 1
                  /\ pc' = "parse"
                  /\ UNCHANGED result
    /\ UNCHANGED <<txHash, walletAddress, transfers, analysis, tokenCache>>
    /\ UNCHANGED outsideAnalyze

\* One iteration of the loop of parseTransferEvents (lines 85-112), with the
\* getTokenInfo call it awaits.
ParseLog(outcomes) ==
    /\ pc = "parse"
    /\ idx <= Len(receipt.logs)
    /\ LET log == receipt.logs[idx]
           d == DecodeLog(log)
       IN IF d.kind = "skip"
          THEN UNCHANGED <<transfers, tokenCache, faults>>
          ELSE IF d = Thrown
          THEN /\ transfers' = SkipLog(transfers)
               /\ faults' = [faults EXCEPT !.logs = @ \cup {idx}]
               /\ UNCHANGED tokenCache
          ELSE \E rd \in outcomes :
                 LET r == GetTokenInfo(tokenCache, log.address, rd)
                 IN /\ tokenCache' = r.cache
                    /\ IF r.info = Thrown
                       THEN /\ transfers' = SkipLog(transfers)
                            /\ faults' = [faults EXCEPT
                                             !.logs = @ \cup {idx}]
                       ELSE /\ transfers' =
                                 Append(transfers,
                                        TransferEvent(log, d, r.info))
                            /\ faults' = [faults EXCEPT
                                             !.reads = @ \cup r.failed]
    /\ idx' = idx + 1
    /\ UNCHANGED <<pc, txHash, walletAddress, tx, receipt, result, analysis>>
    /\ UNCHANGED outsideAnalyze

\* The loop has ended: the rest of detectSwap (lines 126-181) and of
\* analyzeTransaction (lines 210-223).
Classify ==
    /\ pc = "parse"
    /\ idx > Len(receipt.logs)
    /\ result' = BuildAnalysis(txHash,
                               DetectSwap(tx, transfers, walletAddress),
                               receipt)
    /\ pc' = "done"
    /\ UNCHANGED <<txHash, walletAddress, tx, receipt, idx, transfers,
                   analysis, tokenCache, faults>>
    /\ UNCHANGED outsideAnalyze

\* BlockchainService.analyzeTransaction returns to its caller.
ServiceReturn ==
    /\ pc = "done"
    /\ analysis' = ServiceAnalyze(result)
    /\ pc' = "returned"
    /\ UNCHANGED <<txHash, walletAddress, tx, receipt, idx, transfers,
                   result, tokenCache, faults>>
    /\ UNCHANGED outsideAnalyze

\* ----------------------------------------------------------- specifications
Wallets == {Addr("wallet", "lower"), Addr("wallet", "checksum")}

\* Classification runs: every log list up to MaxLogs over the transfer
\* logs and an Approval; metadata reads answer.
ClassifyLogs == SwapLegLogs \cup {ApprovalLog}

Next ==
    \/ CallAnalyze(Wallets)
    \/ Fetch(TxsOver(TxDestinations, TxValues),
             ReceiptsOver(ClassifyLogs, MaxLogs, {0, 1}, GasValues))
    \/ ParseLog({AllReadsSucceed})
    \/ Classify
    \/ ServiceReturn

Spec == Init /\ [][Next]_vars

\* Failure runs: every provider failure, every combination of rejected
\* metadata reads and every malformed log, over log lists up to
\* MaxFaultLogs.
\* A receipt object without a logs array.
ShapelessReceipt == [status |-> 1, gasUsed |-> BigInt(<<2, 1, 0, 0, 0>>)]

FaultLogs ==
    {TransferLog("tokA", "wallet", "pool"),
     TransferLog("tokB", "pool", "wallet")} \cup MalformedLogs

NextFault ==
    \/ CallAnalyze({Addr("wallet", "lower")})
    \/ Fetch(TxsOver({Addr("uniswapV3Router", "checksum")},
                     {ScaleUp(<<1, 5>>, 17)}),
             ReceiptsOver(FaultLogs, MaxFaultLogs, {1},
                          {BigInt(<<2, 1, 0, 0, 0>>)})
             \cup {ShapelessReceipt})
    \/ ParseLog(ReadOutcomes)
    \/ Classify
    \/ ServiceReturn

SpecFault == Init /\ [][NextFault]_vars

\* ------------------------------------------------------------ properties
\* The call has run past the decoding of the receipt's logs.
Classified == pc \in {"done", "returned"} /\ "logs" \in DOMAIN receipt

\* Transfer i of the decoded list leaves / reaches the wallet: the same 20
\* bytes, whatever the letter case.
SentAt(i) == transfers[i].from.id = walletAddress.id
ReceivedAt(i) == transfers[i].to.id = walletAddress.id

Positions == 1 .. Len(transfers)
AnySent == \E i \in Positions : SentAt(i)
AnyReceived == \E i \in Positions : ReceivedAt(i)

FirstSent ==
    CHOOSE i \in Positions : SentAt(i) /\ \A j \in 1 .. i - 1 : ~SentAt(j)
FirstReceived ==
    CHOOSE i \in Positions :
        ReceivedAt(i) /\ \A j \in 1 .. i - 1 : ~ReceivedAt(j)

\* The ether text of each value the runs attach to a transaction.
EtherText(v) ==
    CASE v = Undefined -> <<"0">>
      [] v = BigInt(<<0>>) -> <<"0">>
      [] v = ScaleUp(<<1, 5>>, 17) -> <<"1", ".", "5">>
      [] v = ScaleUp(<<5>>, 14) -> <<"0", ".", "0", "0", "0", "5">>

\* C1: when the decoded list has at least 2 entries, one sent from the
\* wallet and one received by it, the result is a SWAP whose tokenIn is the
\* first sent transfer and whose tokenOut is the first received transfer in
\* log order, also when both legs are of the same token contract.
C1_SwapFirstLegs ==
    (Classified /\ Len(transfers) >= 2 /\ AnySent /\ AnyReceived)
        => /\ IsAnalysis(result)
           /\ result.type = "SWAP"
           /\ result.tokenIn = transfers[FirstSent]
           /\ result.tokenOut = transfers[FirstReceived]

\* A SWAP of three transfers whose two legs are of the same token, and
\* whose first sent transfer is followed by a different sent transfer.
C1_Witness ==
    /\ Classified /\ IsAnalysis(result) /\ result.type = "SWAP"
    /\ Len(transfers) = 3
    /\ result.tokenIn.tokenAddress = result.tokenOut.tokenAddress
    /\ \E i \in Positions :
          i > FirstSent /\ SentAt(i) /\ transfers[i] # transfers[FirstSent]

\* C2: when the decoded list has at least 2 entries, one received by the
\* wallet and none sent from it, the result is a BUY whose tokenBought is
\* the first received transfer and whose ethSpent is the transaction's
\* value as ether text, '0' for a zero or absent value.
C2_BuyOnlyReceived ==
    (Classified /\ Len(transfers) >= 2 /\ AnyReceived /\ ~AnySent)
        => /\ IsAnalysis(result)
           /\ result.type = "BUY"
           /\ result.tokenBought = transfers[FirstReceived]
           /\ result.ethSpent = EtherText(tx.value)

\* A BUY of a transaction that attaches the value 0n, whose first received
\* transfer is not the first of the list.
C2_Witness ==
    /\ Classified /\ IsAnalysis(result) /\ result.type = "BUY"
    /\ tx.value = BigInt(<<0>>)
    /\ result.ethSpent = <<"0">>
    /\ FirstReceived > 1

\* C3: when the decoded list has at least 2 entries, one sent from the
\* wallet and none received by it, the result is a SELL whose tokenSold is
\* the first sent transfer and whose ethReceived is the transaction's value
\* as ether text; nothing else (no balance) decides it.
C3_SellOnlySent ==
    (Classified /\ Len(transfers) >= 2 /\ AnySent /\ ~AnyReceived)
        => /\ IsAnalysis(result)
           /\ result.type = "SELL"
           /\ result.tokenSold = transfers[FirstSent]
           /\ result.ethReceived = EtherText(tx.value)

\* A SELL of a transaction that attaches no ether at all, whose first sent
\* transfer is not the first of the list.
C3_Witness ==
    /\ Classified /\ IsAnalysis(result) /\ result.type = "SELL"
    /\ tx.value = Undefined
    /\ result.ethReceived = <<"0">>
    /\ FirstSent > 1

\* C4: a decoded list of fewer than 2 entries gives null, from
\* TokenUtils.analyzeTransaction and from the service, whoever sends or
\* receives the single transfer and whatever the transaction's value.
C4_FewerThanTwoIsNone ==
    (Classified /\ Len(transfers) < 2)
        => /\ result = Null
           /\ (pc = "returned" => analysis = Null)

\* A single transfer to the wallet in a transaction that attaches 1.5
\* ether, next to a log that is no transfer: the caller got null.
C4_Witness ==
    /\ pc = "returned" /\ "logs" \in DOMAIN receipt
    /\ Len(receipt.logs) = 2 /\ Len(transfers) = 1
    /\ ReceivedAt(1)
    /\ tx.value = ScaleUp(<<1, 5>>, 17)
    /\ analysis = Null

\* C5: when the wallet neither sends nor receives any decoded transfer the
\* result is null, for any number of transfers, whether the receipt
\* reports success or failure.
C5_UninvolvedIsNone ==
    (Classified /\ ~AnySent /\ ~AnyReceived)
        => /\ result = Null
           /\ (pc = "returned" => analysis = Null)

\* Three transfers, none touching the wallet, in a successful receipt.
C5_Witness ==
    /\ pc = "returned" /\ "logs" \in DOMAIN receipt
    /\ Len(transfers) = 3
    /\ ~AnySent /\ ~AnyReceived
    /\ receipt.status = 1
    /\ analysis = Null

OnlyReceived(i) ==
    /\ ReceivedAt(i)
    /\ \A j \in Positions : j # i => ~ReceivedAt(j)

\* C6 as stated: exactly one transfer to the wallet and none from it give a
\* BUY carrying the transaction's value, whatever else the list holds, and
\* also when it holds nothing else.
C6_OneReceivedIsBuy ==
    (Classified /\ ~AnySent /\ \E i \in Positions : OnlyReceived(i))
        => /\ IsAnalysis(result)
           /\ result.type = "BUY"
           /\ result.ethSpent = EtherText(tx.value)

\* C6 amended: exactly one transfer to the wallet, none from it and at
\* least one other decoded transfer give a BUY of that transfer, carrying
\* the transaction's value.
C6_OneReceivedAmongOthersIsBuy ==
    \A i \in Positions :
        (Classified /\ ~AnySent /\ OnlyReceived(i) /\ Len(transfers) >= 2)
            => /\ IsAnalysis(result)
               /\ result.type = "BUY"
               /\ result.tokenBought = transfers[i]
               /\ result.ethSpent = EtherText(tx.value)

\* One transfer to the wallet after two that leave it out, 0.0005 ether
\* attached.
C6_Witness ==
    /\ Classified /\ IsAnalysis(result)
    /\ Len(transfers) = 3 /\ OnlyReceived(3) /\ ~AnySent
    /\ result.ethSpent = <<"0", ".", "0", "0", "0", "5">>

ExpectedCategory ==
    IF AnySent /\ AnyReceived THEN "SWAP"
    ELSE IF AnySent THEN "SELL"
    ELSE IF AnyReceived THEN "BUY"
    ELSE "NONE"

C8_NotFoundDistinctFromNone ==
    (pc = "returned" /\ faults.provider # {}) => analysis # Null

CharDigit(c) ==
    CASE c = "0" -> 0 [] c = "1" -> 1 [] c = "2" -> 2 [] c = "3" -> 3
      [] c = "4" -> 4 [] c = "5" -> 5 [] c = "6" -> 6 [] c = "7" -> 7
      [] c = "8" -> 8 [] c = "9" -> 9

TextDigits(text) == [i \in 1 .. Len(text) |-> CharDigit(text[i])]

\* C10: every result carries the receipt's gasUsed and the status 'Success'
\* exactly when the receipt's status is 1, 'Failed' otherwise, in every
\* branch; a failed receipt still gets the category of its transfer list.
C10_GasAndStatus ==
    /\ (Classified /\ IsAnalysis(result))
          => /\ TextDigits(result.gasUsed) = receipt.gasUsed.digits
             /\ receipt.status = 1 => result.status = "Success"
             /\ receipt.status # 1 => result.status = "Failed"
    /\ (Classified /\ receipt.status # 1 /\ Len(transfers) >= 2
        /\ ExpectedCategory # "NONE")
          => IsAnalysis(result) /\ result.type = ExpectedCategory

\* A SWAP of a failed receipt that used 150000 gas.
C10_Witness ==
    /\ Classified /\ IsAnalysis(result) /\ result.type = "SWAP"
    /\ receipt.status = 0
    /\ result.status = "Failed"
    /\ result.gasUsed = <<"1", "5", "0", "0", "0", "0">>

\* A cache entry is a whole TokenInfo of its own key's contract.
CompleteEntry(k) ==
    LET e == tokenCache[k]
    IN /\ k.kind = "addr" /\ k.form = "lower"
       /\ DOMAIN e = {"address", "symbol", "name", "decimals"}
       /\ e.address.kind = "addr" /\ e.address.id = k.id
       /\ e.symbol \in {OnChainSymbol(k.id), SentinelSymbol}
       /\ e.name \in {OnChainName(k.id), SentinelName}
       /\ e.decimals \in {OnChainDecimals(k.id), SentinelDecimals}

SentinelOf(f) ==
    CASE f = "symbol" -> [symbol |-> "UNKNOWN"]
      [] f = "name" -> [name |-> "Unknown Token"]
      [] f = "decimals" -> [decimals |-> 18]

\* The logs of the receipt that are well-formed Transfer events.
GoodLogs == SelectSeq(receipt.logs, LAMBDA l : l \in TransferLogs)

\* C9: analyzeTransaction never raises.  A failed getTransaction or
\* getTransactionReceipt (or an unreadable receipt) ends in null; a
\* rejected symbol, name or decimals read leaves that field's sentinel in
\* the cached TokenInfo; a failed contract construction leaves an
\* all-sentinel transfer; a log that does not decode is skipped while every
\* well-formed Transfer log is returned, in order; and the cache holds only
\* whole entries.
C9_NeverRaises ==
    /\ result # Thrown
    /\ analysis # Thrown
    /\ \A k \in DOMAIN tokenCache : CompleteEntry(k)
    /\ pc \in {"done", "returned"}
          => /\ faults.provider # {} => result = Null
             /\ \A r \in faults.reads :
                   IF r[2] = "contract"
                   THEN \E i \in Positions :
                          /\ transfers[i].tokenAddress.id = r[1]
                          /\ transfers[i].tokenSymbol = "UNKNOWN"
                          /\ transfers[i].tokenName = "Unknown Token"
                          /\ transfers[i].decimals = 18
                   ELSE LET e == tokenCache[Addr(r[1], "lower")]
                        IN e[r[2]] = SentinelOf(r[2])[r[2]]
             /\ Classified
                   => /\ Len(transfers) = Len(GoodLogs)
                      /\ \A i \in Positions :
                            /\ transfers[i].tokenAddress = GoodLogs[i].address
                            /\ transfers[i].from.id = GoodLogs[i].topics[2].id
                            /\ transfers[i].to.id = GoodLogs[i].topics[3].id
                            /\ transfers[i].value = GoodLogs[i].data
                      /\ \A i \in faults.logs :
                            receipt.logs[i] \notin TransferLogs

\* A call that met a log that does not decode and a rejected metadata
\* read, and returned null to its caller.
C9_Witness ==
    /\ pc = "returned"
    /\ faults.logs # {}
    /\ \E r \in faults.reads : r[2] # "contract"
    /\ Len(transfers) = 1
    /\ analysis = Null


\* C11: in every SWAP, BUY or SELL result dex is the table's name for the
\* transaction's destination when its lowercase text is a key of the router
\* table, and 'Unknown DEX' otherwise, also for a transaction without a
\* destination; the lookup raises nothing.
C11_DexName ==
    (Classified /\ IsAnalysis(result))
        => /\ result.dex =
                 IF tx.to = Null THEN "Unknown DEX"
                 ELSE IF tx.to.id = "uniswapV3Router"
                 THEN "Uniswap V3 Router"
                 ELSE "Unknown DEX"
           /\ result # Thrown

\* A result of a transaction sent to the Uniswap V3 router, named by its
\* checksummed address.
C11_Witness ==
    /\ Classified /\ IsAnalysis(result)
    /\ tx.to = Addr("uniswapV3Router", "checksum")
    /\ result.dex = "Uniswap V3 Router"


\* ------------------------------------------------ formatTransactionSummary
\* The rate of the rough estimate, 1 ETH = $3000.
EthUsdRate == 3000

\* parseFloat(text) > 0 for a decimal text: some digit is not 0.
PositiveText(text) ==
    \E i \in 1..Len(text) : text[i] \notin {"0", "."}

\* ethSpent !== '0' ? parseFloat(ethSpent) : 0, then
\* ethSpent > 0 ? (ethSpent * 3000).toFixed(2) : 'N/A'.  The product is kept
\* as its factors.
UsdValue(ethText) ==
    IF ethText # <<"0">> /\ PositiveText(ethText)
    THEN [kind |-> "usd", eth |-> ethText, rate |-> EthUsdRate, places |-> 2]
    ELSE [kind |-> "text", text |-> "N/A"]

\* parseFloat(valueFormatted).toFixed(4), kept as its argument.
Fixed4(valueFormatted) ==
    [kind |-> "fixed", of |-> valueFormatted, places |-> 4]

\* walletAddress || 'Wallet'
ShortWallet(walletLabel) ==
    IF walletLabel = Null THEN [kind |-> "text", text |-> "Wallet"]
    ELSE walletLabel

\* `https://basescan.org/tx/${analysis.hash}`
BasescanLink(a) == [kind |-> "link", base |-> "https://basescan.org/tx/",
                    hash |-> a.hash]

\* formatTransactionSummary(analysis, walletAddress = null): the text as
\* the record of its interpolated parts, or null.
FormatTransactionSummary(a, walletLabel) ==
    IF a = Null \/ a = Undefined
    THEN [kind |-> "text", text |-> "Unable to analyze transaction"]
    ELSE IF a.type = "BUY"
    THEN [kind |-> "summary", heading |-> "BUY",
          wallet |-> ShortWallet(walletLabel),
          amount |-> <<UsdValue(a.ethSpent)>>,
          symbols |-> <<a.tokenBought.tokenSymbol>>,
          contract |-> a.tokenBought.tokenAddress,
          link |-> BasescanLink(a)]
    ELSE IF a.type = "SELL"
    THEN [kind |-> "summary", heading |-> "SELL",
          wallet |-> ShortWallet(walletLabel),
          amount |-> <<UsdValue(a.ethReceived)>>,
          symbols |-> <<a.tokenSold.tokenSymbol>>,
          contract |-> a.tokenSold.tokenAddress,
          link |-> BasescanLink(a)]
    ELSE IF a.type = "SWAP"
    THEN [kind |-> "summary", heading |-> "SWAP",
          wallet |-> ShortWallet(walletLabel),
          amount |-> <<Fixed4(a.tokenIn.valueFormatted),
                       Fixed4(a.tokenOut.valueFormatted)>>,
          symbols |-> <<a.tokenIn.tokenSymbol, a.tokenOut.tokenSymbol>>,
          contract |-> a.tokenOut.tokenAddress,
          link |-> BasescanLink(a)]
    ELSE Null

\* The types the default branch names: analyses that are no swap.
OtherAnalyses ==
    {[hash |-> h, type |-> t] :
        h \in Hashes, t \in {"TRANSFER", "ETH_TRANSFER", "UNKNOWN"}}

WalletLabels == {Null, [kind |-> "text", text |-> "0xWall...et01"]}

\* A caller hands formatTransactionSummary what analyzeTransaction returned
\* to it, or an analysis of another type.
FormatSummary(others) ==
    /\ pc = "returned"
    /\ \E a \in {analysis} \cup others, label \in WalletLabels :
          summary' = [of |-> a, label |-> label,
                      text |-> FormatTransactionSummary(a, label)]
    /\ pc' = "formatted"
    /\ UNCHANGED <<txHash, walletAddress, tx, receipt, idx, transfers,
                   result, analysis, tokenCache, faults, calls, pair>>
    /\ UNCHANGED <<scaled, lookup, trackerVars>>

\* Formatting runs: analyses of every category over short log lists.
MaxFormatLogs == 2

FormatLogs ==
    {TransferLog(t, f, to) :
        t \in {"tokA"}, f \in PartyIds, to \in PartyIds}
    \cup {TransferLog("tokB", "pool", "wallet")}

FormatTxValues == TxValues

NextFormat ==
    \/ CallAnalyze({Addr("wallet", "lower")})
    \/ Fetch(TxsOver({Null}, FormatTxValues),
             ReceiptsOver(FormatLogs, MaxFormatLogs, {1}, GasValues))
    \/ ParseLog({AllReadsSucceed})
    \/ Classify
    \/ ServiceReturn
    \/ FormatSummary(OtherAnalyses)

SpecFormat == Init /\ [][NextFormat]_vars

Formatted == pc = "formatted"

\* C12: formatTransactionSummary returns null for every analysis that is
\* not a BUY, SELL or SWAP result, the null outcome of analyzeTransaction
\* included, and a non-null text for every BUY, SELL and SWAP result.
C12_NullUnlessBuySellSwap ==
    Formatted =>
        ((summary.text # Null)
            <=> (IsAnalysis(summary.of)
                 /\ summary.of.type \in {"BUY", "SELL", "SWAP"}))


\* ------------------------------------------- getTokenInfo calls in flight
\* A getTokenInfo call runs in two uninterrupted segments: from its start to
\* the await of line 51, and from the settling of the three reads to its
\* return.  Segments of different calls interleave freely.

\* The events so far: one per call started and one per call resumed.
EventCount(cs) ==
    Len(cs) + Cardinality({i \in DOMAIN cs : cs[i].returnNo > cs[i].startNo})

\* The calls that wrote the cache entry of `key`.
WritersOf(cs, key) ==
    {i \in DOMAIN cs : cs[i].wrote /\ CacheKey(cs[i].address) = key}

\* The call whose tokenCache.set for `key` came last.
LastWriter(cs, key) ==
    CHOOSE i \in WritersOf(cs, key) :
        \A j \in WritersOf(cs, key) : cs[j].returnNo <= cs[i].returnNo

NoReads == [ctor |-> FALSE, symbol |-> FALSE, name |-> FALSE,
            decimals |-> FALSE]

\* A read on an address whose mixed case fails the checksum rejects.
ReadsFor(tokenAddress, outcomes) ==
    {rd \in outcomes :
        tokenAddress.form = "mixed"
            => ~rd.symbol /\ ~rd.name /\ ~rd.decimals}

\* Lines 43-55: the cache check; on a miss the contract object and the three
\* reads, whose answers the call then awaits.  `silent` holds the reads that
\* never settle.
StartGetTokenInfo(addresses, outcomes, silences, max) ==
    /\ pc = "idle"
    /\ Len(calls) < max
    /\ \E a \in addresses :
         LET n == EventCount(calls) + 1
             self == Len(calls) + 1
             key == CacheKey(a)
         IN IF key \in DOMAIN tokenCache
            THEN calls' = Append(calls,
                     [address |-> a, rd |-> NoReads, silent |-> {},
                      st |-> "returned", info |-> tokenCache[key],
                      reads |-> 0, hit |-> TRUE, fallback |-> FALSE,
                      startNo |-> n, returnNo |-> n, wrote |-> FALSE,
                      from |-> LastWriter(calls, key)])
            ELSE \E rd \in ReadsFor(a, outcomes), s \in silences :
                   IF ~rd.ctor
                   THEN calls' = Append(calls,
                            [address |-> a, rd |-> NoReads, silent |-> {},
                             st |-> "returned", info |-> SentinelInfo(a),
                             reads |-> 0, hit |-> FALSE, fallback |-> TRUE,
                             startNo |-> n, returnNo |-> n,
                             wrote |-> FALSE, from |-> self])
                   ELSE calls' = Append(calls,
                            [address |-> a, rd |-> rd, silent |-> s,
                             st |-> "awaiting", info |-> Undefined,
                             reads |-> 3, hit |-> FALSE, fallback |-> FALSE,
                             startNo |-> n, returnNo |-> 0,
                             wrote |-> FALSE, from |-> self])
    /\ UNCHANGED <<pc, txHash, walletAddress, tx, receipt, idx, transfers,
                   result, analysis, tokenCache, faults, summary, pair>>
    /\ UNCHANGED <<scaled, lookup, trackerVars>>

\* Mutant: a TokenInfo holding the sentinel symbol is not stored.
CacheSet_SkipSentinel(cache, key, tokenInfo) ==
    IF tokenInfo.symbol = SentinelSymbol THEN cache
    ELSE (key :> tokenInfo) @@ cache

\* Line 65: this.tokenCache.set(key, tokenInfo).
CacheSet(cache, key, tokenInfo) == (key :> tokenInfo) @@ cache

\* Lines 57-67 of call i: Promise.all has settled; the tokenInfo is built,
\* stored under the lowercase address and returned.
ResumeCall(i) ==
    /\ i \in DOMAIN calls
    /\ calls[i].st = "awaiting"
    /\ calls[i].silent = {}
    /\ LET tokenInfo == BuildTokenInfo(calls[i].address, calls[i].rd)
       IN /\ tokenCache' =
                 CacheSet(tokenCache, CacheKey(calls[i].address), tokenInfo)
          /\ calls' = [calls EXCEPT ![i] =
                 [@ EXCEPT !.st = "returned", !.info = tokenInfo,
                           !.returnNo = EventCount(calls) + 1,
                           !.wrote = TRUE]]
    /\ UNCHANGED <<pc, txHash, walletAddress, tx, receipt, idx, transfers,
                   result, analysis, faults, summary, pair>>
    /\ UNCHANGED <<scaled, lookup, trackerVars>>

ResumeGetTokenInfo == \E i \in DOMAIN calls : ResumeCall(i)

\* Racing calls: up to MaxCalls calls on two tokens in two letter cases.
MaxCalls == 3

TokenAddresses ==
    {Addr("tokA", "lower"), Addr("tokA", "checksum"), Addr("tokB", "lower")}

SymbolFails == [AllReadsSucceed EXCEPT !.symbol = FALSE]
CtorFails == [AllReadsSucceed EXCEPT !.ctor = FALSE]

RaceOutcomes == {AllReadsSucceed, SymbolFails, CtorFails}

NextToken ==
    \/ StartGetTokenInfo(TokenAddresses, RaceOutcomes, {{}}, MaxCalls)
    \/ ResumeGetTokenInfo

SpecToken == Init /\ [][NextToken]_vars


\* Call i had returned when call j started, and both name one token address
\* up to letter case.
ReturnedBefore(i, j) ==
    /\ calls[i].st = "returned"
    /\ calls[i].returnNo < calls[j].startNo
    /\ ToLowerCase(calls[i].address) = ToLowerCase(calls[j].address)

\* The calls that stored an entry for call j's address after call i returned
\* and before call j started.
WritersBetween(i, j) ==
    {k \in WritersOf(calls, ToLowerCase(calls[j].address)) :
        /\ calls[k].returnNo > calls[i].returnNo
        /\ calls[k].returnNo < calls[j].startNo}

MaxReadCalls == 2

ReadAddresses ==
    {Addr("tokA", f) : f \in Forms} \cup {Addr("tokB", "lower")}

NextReads ==
    \/ StartGetTokenInfo(ReadAddresses, ReadOutcomes, {{}}, MaxReadCalls)
    \/ ResumeGetTokenInfo

SpecReads == Init /\ [][NextReads]_vars

ResolvedFor(k) ==
    {i \in DOMAIN calls :
        calls[i].wrote /\ ToLowerCase(calls[i].address) = ToLowerCase(k)}

\* C15: under every interleaving of getTokenInfo calls the cache holds at
\* most one entry per lowercased address, and each entry is the complete
\* TokenInfo stored by the call that, among the calls for that address,
\* stored last; calls for other addresses leave it as it is.
C15_LastWriteWins ==
    /\ \A k1 \in DOMAIN tokenCache, k2 \in DOMAIN tokenCache :
          ToLowerCase(k1) = ToLowerCase(k2) => k1 = k2
    /\ \A k \in DOMAIN tokenCache :
          /\ ResolvedFor(k) # {}
          /\ \E i \in ResolvedFor(k) :
                /\ \A j \in ResolvedFor(k) :
                      calls[j].returnNo <= calls[i].returnNo
                /\ tokenCache[k] = calls[i].info
          /\ DOMAIN tokenCache[k] = {"address", "symbol", "name", "decimals"}
          /\ tokenCache[k].address.id = k.id
          /\ tokenCache[k].symbol \in {OnChainSymbol(k.id), "UNKNOWN"}
          /\ tokenCache[k].name \in {OnChainName(k.id), "Unknown Token"}
          /\ tokenCache[k].decimals \in {OnChainDecimals(k.id), 18}

C15_Witness ==
    \E i \in DOMAIN calls, j \in DOMAIN calls, o \in DOMAIN calls :
        /\ calls[i].wrote /\ calls[j].wrote /\ calls[o].wrote
        /\ calls[i].address = Addr("tokA", "lower")
        /\ calls[j].address = Addr("tokA", "checksum")
        /\ calls[o].address = Addr("tokB", "lower")
        /\ calls[j].startNo < calls[i].returnNo
        /\ calls[i].returnNo < calls[j].returnNo
        /\ calls[j].returnNo < calls[o].returnNo
        /\ calls[i].info.symbol # calls[j].info.symbol
        /\ tokenCache[Addr("tokA", "lower")] = calls[j].info
        /\ DOMAIN tokenCache = {Addr("tokA", "lower"), Addr("tokB", "lower")}


\* Unresponsive-read runs: a read may never settle.  A call whose reads have
\* all settled is resumed by the event loop, hence the weak fairness of
\* each call's second segment.
MaxLiveCalls == 2

Silences == {{}, {"symbol"}, {"decimals"}, {"symbol", "name", "decimals"}}

NextTokenLive ==
    \/ StartGetTokenInfo(TokenAddresses, {AllReadsSucceed, SymbolFails},
                         Silences, MaxLiveCalls)
    \/ ResumeGetTokenInfo

SpecTokenLive ==
    /\ Init
    /\ [][NextTokenLive]_vars
    /\ \A i \in 1 .. MaxLiveCalls : WF_vars(ResumeCall(i))

\* C16: every getTokenInfo call eventually returns to its caller, also when
\* one of its reads never responds.
C16_EveryCallReturns ==
    \A i \in 1 .. MaxLiveCalls :
        (Len(calls) >= i) ~> (Len(calls) >= i /\ calls[i].st = "returned")


\* ------------------------------------------------------ parseTransferEvents
\* Transfer signature with a sender topic in mixed case that fails the
\* EIP-55 checksum: getAddress rejects it.
BadChecksumLog ==
    [address |-> Addr("tokA", "checksum"),
     topics |-> <<TransferTopic, Addr("wallet", "mixed"),
                  Addr("pool", "lower")>>,
     data |-> ScaleUp(<<1>>, 18)]

\* Decoding runs: log lists up to MaxParseLogs over two Transfer logs, an
\* Approval and every malformed log.
MaxParseLogs == 3

ParseLogs ==
    {TransferLog("tokA", "wallet", "pool"),
     TransferLog("tokB", "pool", "wallet"),
     ApprovalLog, BadChecksumLog} \cup MalformedLogs

NextParse ==
    \/ CallAnalyze({Addr("wallet", "lower")})
    \/ Fetch(TxsOver({Addr("uniswapV3Router", "checksum")},
                     {ScaleUp(<<1, 5>>, 17)}),
             ReceiptsOver(ParseLogs, MaxParseLogs, {1},
                          {BigInt(<<2, 1, 0, 0, 0>>)}))
    \/ ParseLog({AllReadsSucceed, SymbolFails})
    \/ Classify
    \/ ServiceReturn

SpecParse == Init /\ [][NextParse]_vars

\* The log's first topic is the Transfer signature hash.
HasTransferSignature(log) ==
    Len(log.topics) >= 1 /\ log.topics[1] = TransferTopic

\* A Transfer log that decodes: sender and recipient topics hold an address
\* in lowercase, uppercase or EIP-55 case, the data is a number and the
\* emitting address is present.
WellFormedTransfer(log) ==
    /\ Len(log.topics) >= 3
    /\ log.topics[1] = TransferTopic
    /\ \A p \in {2, 3} :
          log.topics[p].kind = "addr" /\ log.topics[p].form # "mixed"
    /\ log.data.kind = "bigint"
    /\ log.address.kind = "addr"

\* The loop of parseTransferEvents has handled the first LogsDone logs.
LogsDone ==
    IF pc = "parse" THEN idx - 1
    ELSE IF Classified THEN Len(receipt.logs) ELSE 0

\* The first n logs that satisfy P, in the order of the receipt.
LogsThat(P(_), n) == SelectSeq(SubSeq(receipt.logs, 1, n), P)

\* TransferEvent t is the decoding of log.
EventOf(log, t) ==
    /\ t.tokenAddress = log.address
    /\ t.from = [log.topics[2] EXCEPT !.form = "checksum"]
    /\ t.to = [log.topics[3] EXCEPT !.form = "checksum"]
    /\ t.value = log.data

\* C17 as stated: one TransferEvent per log whose first topic is the
\* Transfer signature hash, none for any other log, in the order of the
\* logs, without raising.
C17_OnePerTransferSignature ==
    /\ result # Thrown
    /\ Classified
          => LET sig == LogsThat(HasTransferSignature, Len(receipt.logs))
             IN /\ Len(transfers) = Len(sig)
                /\ \A i \in 1 .. Len(sig) :
                      transfers[i].tokenAddress = sig[i].address

\* C17 amended: at every point of the loop the list holds one TransferEvent
\* per log handled so far whose first topic is the Transfer signature hash
\* and whose sender, recipient, data and emitting address decode, in the
\* order of the logs, and nothing else; nothing is raised.
C17_OnePerDecodableTransfer ==
    /\ result # Thrown
    /\ (pc = "parse" \/ Classified)
          => LET good == LogsThat(WellFormedTransfer, LogsDone)
             IN /\ Len(transfers) = Len(good)
                /\ \A i \in 1 .. Len(good) : EventOf(good[i], transfers[i])

C17_Witness ==
    /\ Classified
    /\ receipt.logs = <<TransferLog("tokB", "pool", "wallet"), ApprovalLog,
                        TransferLog("tokA", "wallet", "pool")>>
    /\ Len(transfers) = 2
    /\ transfers[1].tokenSymbol = "BBB"
    /\ transfers[2].tokenSymbol = "AAA"


\* A log with the Transfer signature that does not decode.
Malformed(log) == HasTransferSignature(log) /\ ~WellFormedTransfer(log)

\* C18: when a receipt holds a malformed log, only that log is skipped:
\* every well-formed Transfer log, before or after it, has its TransferEvent
\* in the result at the position of its rank among the well-formed ones, the
\* result holds nothing else, and no error reaches the caller.
C18_SkipsMalformedOnly ==
    (Classified /\ \E q \in DOMAIN receipt.logs : Malformed(receipt.logs[q]))
        => /\ \A p \in DOMAIN receipt.logs :
                 WellFormedTransfer(receipt.logs[p])
                     => LET k == Len(LogsThat(WellFormedTransfer, p))
                        IN /\ k <= Len(transfers)
                           /\ EventOf(receipt.logs[p], transfers[k])
           /\ Len(transfers) + Len(LogsThat(Malformed, Len(receipt.logs)))
                 = Len(LogsThat(HasTransferSignature, Len(receipt.logs)))
           /\ result # Thrown
           /\ analysis # Thrown
           /\ result = BuildAnalysis(txHash,
                                     DetectSwap(tx, transfers, walletAddress),
                                     receipt)

C18_Witness ==
    /\ Classified
    /\ pc = "returned"
    /\ Len(receipt.logs) = 3
    /\ WellFormedTransfer(receipt.logs[1])
    /\ Malformed(receipt.logs[2])
    /\ WellFormedTransfer(receipt.logs[3])
    /\ receipt.logs[1] # receipt.logs[3]
    /\ Len(transfers) = 2
    /\ IsAnalysis(analysis)


\* ------------------------------------------- two transactions side by side
\* A Transfer log of token t for a given raw amount, with the sender and
\* recipient topics in letter case `form`.
TransferLogWith(t, f, to, amount, form) ==
    [address |-> Addr(t, "checksum"),
     topics |-> <<TransferTopic, Addr(f, form), Addr(to, form)>>,
     data |-> amount]

\* The TransferEvent parseTransferEvents pushes for a log whose token's
\* metadata reads succeed (lines 91-106).
DecodedTransfer(log) ==
    TransferEvent(log, DecodeLog(log),
                  BuildTokenInfo(log.address, AllReadsSucceed))

\* Raw amounts: 1 and 25 * 10^17 base units.
PairAmounts == {BigInt(<<1>>), ScaleUp(<<2, 5>>, 17)}

\* Longest transfer list of the side-by-side runs.
MaxPairLen == 2

\* Sender and recipient of every position of a list.
Patterns == SeqsUpTo(PartyIds \X PartyIds, MaxPairLen)

\* The list with pattern p whose position i moves amounts[i] of tokens[i].
TransfersOf(p, tokens, amounts) ==
    [i \in DOMAIN p |->
        DecodedTransfer(TransferLogWith(tokens[i], p[i][1], p[i][2],
                                        amounts[i], "lower"))]

\* The list with pattern p, all of 10^18 base units of tokA.
PlainTransfers(p) ==
    TransfersOf(p, [i \in DOMAIN p |-> "tokA"],
                [i \in DOMAIN p |-> ScaleUp(<<1>>, 18)])

\* A caller holds two transactions with the same senders and recipients:
\* the first moves 10^18 base units of tokA in every position and carries
\* 1.5 ether, the second any token and amount and any value.
DrawPair ==
    /\ pc = "idle"
    /\ pair = Undefined
    /\ \E p \in Patterns :
         \E tokens \in [DOMAIN p -> TokenIds],
            amounts \in [DOMAIN p -> PairAmounts],
            value \in TxValues :
            pair' = [st |-> "drawn", decoded |-> TRUE,
                     walletA |-> Addr("wallet", "lower"),
                     txA |-> [to |-> Addr("pool", "checksum"),
                              value |-> ScaleUp(<<1, 5>>, 17)],
                     listA |-> PlainTransfers(p),
                     walletB |-> Addr("wallet", "lower"),
                     txB |-> [to |-> Addr("pool", "checksum"),
                              value |-> value],
                     listB |-> TransfersOf(p, tokens, amounts)]
    /\ UNCHANGED <<pc, txHash, walletAddress, tx, receipt, idx, transfers,
                   result, analysis, tokenCache, faults, summary, calls>>
    /\ UNCHANGED <<scaled, lookup, trackerVars>>

\* detectSwap on both.
ClassifyPair ==
    /\ "st" \in DOMAIN pair
    /\ pair.st = "drawn"
    /\ pair' = [st |-> "classified", decoded |-> pair.decoded,
                walletA |-> pair.walletA, txA |-> pair.txA,
                listA |-> pair.listA,
                walletB |-> pair.walletB, txB |-> pair.txB,
                listB |-> pair.listB,
                swapA |-> DetectSwap(pair.txA, pair.listA, pair.walletA),
                swapB |-> DetectSwap(pair.txB, pair.listB, pair.walletB)]
    /\ UNCHANGED <<pc, txHash, walletAddress, tx, receipt, idx, transfers,
                   result, analysis, tokenCache, faults, summary, calls>>
    /\ UNCHANGED <<scaled, lookup, trackerVars>>

NextPair == DrawPair \/ ClassifyPair

SpecPair == Init /\ [][NextPair]_vars

PairClassified == "st" \in DOMAIN pair /\ pair.st = "classified"

\* SWAP, BUY, SELL, or NONE for detectSwap's null.
Category(swapInfo) == IF swapInfo = Null THEN "NONE" ELSE swapInfo.type

\* The first position of list ts that holds t.
PositionOf(ts, t) ==
    CHOOSE i \in DOMAIN ts : ts[i] = t /\ \A j \in 1 .. i - 1 : ts[j] # t

\* The list positions a result selected.
Selected(ts, swapInfo) ==
    IF swapInfo = Null THEN <<>>
    ELSE IF swapInfo.type = "SWAP"
    THEN <<PositionOf(ts, swapInfo.tokenIn),
           PositionOf(ts, swapInfo.tokenOut)>>
    ELSE IF swapInfo.type = "BUY"
    THEN <<PositionOf(ts, swapInfo.tokenBought)>>
    ELSE <<PositionOf(ts, swapInfo.tokenSold)>>

\* C19: two transactions whose transfer lists have the same length and the
\* same sender and recipient in every position receive the same category
\* and select the same list positions, whatever their raw amounts, token
\* decimals and transaction values.
C19_AmountsDoNotMatter ==
    PairClassified
        => /\ Len(pair.listA) = Len(pair.listB)
           /\ \A i \in DOMAIN pair.listA :
                 /\ pair.listA[i].from = pair.listB[i].from
                 /\ pair.listA[i].to = pair.listB[i].to
           /\ Category(pair.swapA) = Category(pair.swapB)
           /\ Selected(pair.listA, pair.swapA)
                 = Selected(pair.listB, pair.swapB)

C19_Witness ==
    /\ PairClassified
    /\ Len(pair.listB) = 2
    /\ pair.listB[1].decimals = 6
    /\ pair.listB[1].value = BigInt(<<1>>)
    /\ pair.listB[1].valueFormatted # pair.listA[1].valueFormatted
    /\ pair.txB.value = Undefined
    /\ Category(pair.swapB) = "SWAP"
    /\ Selected(pair.listB, pair.swapB) = <<2, 1>>


\* The letter cases getAddress accepts in a topic.
DecodableForms == Forms \ {"mixed"}

\* The list with pattern p decoded from logs whose sender and recipient
\* topics at position i are in letter case forms[i].
TransfersCased(p, forms) ==
    [i \in DOMAIN p |->
        DecodedTransfer(TransferLogWith("tokA", p[i][1], p[i][2],
                                        ScaleUp(<<1>>, 18), forms[i]))]

\* Transfers ts with the from and to of position i put in letter case
\* forms[i]: a list handed to detectSwap without decoding.
Recased(ts, forms) ==
    [i \in DOMAIN ts |->
        [ts[i] EXCEPT !.from = [@ EXCEPT !.form = forms[i]],
                      !.to = [@ EXCEPT !.form = forms[i]]]]

\* A caller holds one transaction twice: with lowercase topics and wallet,
\* and with the topics and the wallet argument in other letter cases, the
\* list either decoded from the logs or handed over as it is.
DrawCasings ==
    /\ pc = "idle"
    /\ pair = Undefined
    /\ \E p \in Patterns, w \in Forms, decoded \in BOOLEAN :
         \E forms \in [DOMAIN p ->
                          IF decoded THEN DecodableForms ELSE Forms] :
            pair' = [st |-> "drawn", decoded |-> decoded,
                     walletA |-> Addr("wallet", "lower"),
                     txA |-> [to |-> Addr("uniswapV3Router", "checksum"),
                              value |-> ScaleUp(<<1, 5>>, 17)],
                     listA |-> PlainTransfers(p),
                     walletB |-> Addr("wallet", w),
                     txB |-> [to |-> Addr("uniswapV3Router", "checksum"),
                              value |-> ScaleUp(<<1, 5>>, 17)],
                     listB |-> IF decoded THEN TransfersCased(p, forms)
                               ELSE Recased(PlainTransfers(p), forms)]
    /\ UNCHANGED <<pc, txHash, walletAddress, tx, receipt, idx, transfers,
                   result, analysis, tokenCache, faults, summary, calls>>
    /\ UNCHANGED <<scaled, lookup, trackerVars>>

NextCasing == DrawCasings \/ ClassifyPair

SpecCasing == Init /\ [][NextCasing]_vars

C21_SwapAllTransfers ==
    (Classified /\ IsAnalysis(result) /\ result.type = "SWAP")
        => /\ result.allTransfers = transfers
           /\ Len(result.allTransfers) >= 2
           /\ Len(result.allTransfers)
                 = Len(SelectSeq(receipt.logs, LAMBDA l : l \in TransferLogs))

C21_Witness ==
    /\ Classified /\ IsAnalysis(result) /\ result.type = "SWAP"
    /\ Len(result.allTransfers) = 3
    /\ \E i \in 1 .. 3 :
          /\ result.allTransfers[i].from = Addr("pool", "checksum")
          /\ result.allTransfers[i].to = Addr("pool", "checksum")


\* ----------------------------------------------------------- scaled values
\* Longest digit string of the factor k of a raw amount k * 10^z.
MaxFactorDigits == 2

\* The decimal digit strings of the non-negative integers below
\* 10^MaxFactorDigits: no leading zero, <<0>> for zero.
Factors ==
    {ds \in SeqsUpTo(0 .. 9, MaxFactorDigits) :
        Len(ds) >= 1 /\ (ds[1] = 0 => Len(ds) = 1)}

ScaleDecimals == {0, 6, 8, 18}

\* Powers of ten a raw amount is a multiple of: none, one short of the 18
\* decimals, and the token's own decimals.
ScaleShifts == {0, 3, 17}

\* k * 10^z as a BigInt.
RawAmount(k, z) == IF k = <<0>> THEN BigInt(<<0>>) ELSE ScaleUp(k, z)

\* Line 105: valueFormatted of a transfer of `raw` base units of a token
\* with `decimals` decimals.  `factor` is k when raw is k * 10^decimals.
ScaleAmount ==
    /\ pc = "idle"
    /\ scaled = Undefined
    /\ \E k \in Factors, d \in ScaleDecimals :
        \E z \in ScaleShifts \cup {d} :
          LET raw == RawAmount(k, z)
          IN scaled' = [raw |-> raw, decimals |-> d,
                        factor |-> IF z = d THEN BigInt(k) ELSE Null,
                        text |-> FormatUnits(raw, d)]
    /\ UNCHANGED <<pc, txHash, walletAddress, tx, receipt, idx, transfers,
                   result, analysis, tokenCache, faults, summary, calls,
                   pair, lookup, trackerVars>>

NextScale == ScaleAmount

SpecScale == Init /\ [][NextScale]_vars

Scaled == "text" \in DOMAIN scaled

\* The position of the decimal point in a text, 0 when it has none.
PointAt(text) ==
    IF \E i \in DOMAIN text : text[i] = "."
    THEN CHOOSE i \in DOMAIN text : text[i] = "." ELSE 0

\* The digits of a decimal text without its point, and the number of digits
\* after the point.
Mantissa(text) ==
    IF PointAt(text) = 0 THEN TextDigits(text)
    ELSE TextDigits(SubSeq(text, 1, PointAt(text) - 1)
                    \o SubSeq(text, PointAt(text) + 1, Len(text)))

FractionLen(text) ==
    IF PointAt(text) = 0 THEN 0 ELSE Len(text) - PointAt(text)

\* A digit string without its leading zeros.
RECURSIVE Canonical(_)
Canonical(ds) ==
    IF Len(ds) >= 2 /\ ds[1] = 0 THEN Canonical(Tail(ds)) ELSE ds

\* The text denotes the integer n: its whole part is n and its fraction, if
\* any, is all zeros.
DenotesInteger(text, n) ==
    LET whole == IF PointAt(text) = 0 THEN text
                 ELSE SubSeq(text, 1, PointAt(text) - 1)
    IN /\ Canonical(TextDigits(whole)) = n.digits
       /\ \A i \in DOMAIN text : i > PointAt(text) /\ PointAt(text) # 0
             => text[i] = "0"

\* C22: the scaled value is exactly rawValue / 10^decimals: the text's
\* digits m and fraction length f satisfy m * 10^decimals = raw * 10^f, and
\* for a raw amount 10^decimals * k the text denotes exactly k.
C22_ExactScaling ==
    Scaled
        => /\ \A i \in DOMAIN scaled.text :
                 scaled.text[i] \in {"0", "1", "2", "3", "4", "5", "6", "7",
                                     "8", "9", "."}
           /\ Canonical(Mantissa(scaled.text) \o Zeros(scaled.decimals))
                 = Canonical(scaled.raw.digits
                             \o Zeros(FractionLen(scaled.text)))
           /\ scaled.factor # Null
                 => DenotesInteger(scaled.text, scaled.factor)

C22_Witness ==
    /\ Scaled
    /\ scaled.decimals = 18
    /\ scaled.factor = BigInt(<<4, 2>>)
    /\ scaled.raw = ScaleUp(<<4, 2>>, 18)
    /\ scaled.text = <<"4", "2", ".", "0">>


\* ------------------------------------------------------------------ Storage
\* The decimal digits of a natural number, as characters.
RECURSIVE NatChars(_)
NatChars(n) ==
    IF n < 10 THEN <<DigitChar(n)>>
    ELSE NatChars(n \div 10) \o <<DigitChar(n % 10)>>

\* String(chatId): what a number becomes as an object key.
KeyOf(chatId) ==
    [kind |-> "string",
     chars |-> IF chatId < 0 THEN <<"-">> \o NatChars(0 - chatId)
               ELSE NatChars(chatId)]

RECURSIVE CharsNat(_)
CharsNat(cs) ==
    IF Len(cs) = 0 THEN 0
    ELSE 10 * CharsNat(SubSeq(cs, 1, Len(cs) - 1)) + CharDigit(cs[Len(cs)])

\* Mutant: the sign of the key is lost.
NumberOf_Unsigned(key) ==
    IF Len(key.chars) >= 1 /\ key.chars[1] = "-"
    THEN CharsNat(Tail(key.chars))
    ELSE CharsNat(key.chars)

\* Number(key) for the text of an integer.
NumberOf(key) ==
    IF Len(key.chars) >= 1 /\ key.chars[1] = "-"
    THEN 0 - CharsNat(Tail(key.chars))
    ELSE CharsNat(key.chars)

\* Mutant: only one member of the set is kept.
ArrayFrom_One(S) == IF S = {} THEN <<>> ELSE <<CHOOSE x \in S : TRUE>>

\* Array.from(set): the members of the set, once each.
ArrayFrom(S) ==
    CHOOSE arr \in [1 .. Cardinality(S) -> S] :
        \A x \in S : \E i \in DOMAIN arr : arr[i] = x

\* new Set(array)
SetFrom(arr) == {arr[i] : i \in DOMAIN arr}

\* A Map without key k.
MapDelete(m, k) == [x \in DOMAIN m \ {k} |-> m[x]]

\* Lines 267-283 of saveWallets: the object written to the file.  A write
\* that fails is caught and logged and leaves the file as it was.
SaveWallets(old, watched, checked, writeOk) ==
    IF ~writeOk THEN old
    ELSE [watchedWallets |->
              [key \in {KeyOf(c) : c \in DOMAIN watched} |->
                  ArrayFrom(watched[CHOOSE c \in DOMAIN watched :
                                        KeyOf(c) = key])],
          lastChecked |-> [a \in DOMAIN checked |-> checked[a]]]

\* Lines 294-338 of loadWallets: empty maps without a file, else the maps
\* rebuilt from the two objects, chat ids back to numbers.
LoadWallets(f) ==
    IF f = Undefined
    THEN [watchedWallets |-> EmptyMap, lastChecked |-> EmptyMap]
    ELSE [watchedWallets |->
              [c \in {NumberOf(key) : key \in DOMAIN f.watchedWallets} |->
                  SetFrom(f.watchedWallets[
                      CHOOSE key \in DOMAIN f.watchedWallets :
                          NumberOf(key) = c])],
          lastChecked |->
              [a \in DOMAIN f.lastChecked |-> f.lastChecked[a]]]

\* ------------------------------------------------------------ WalletTracker
\* The history after one more call.
Called(call) == [count |-> userCalls.count + 1, last |-> call]

\* ethers.isAddress: 40 hex digits in lowercase, uppercase or EIP-55 case.
IsValidAddress(address) ==
    address.kind = "addr" /\ address.form # "mixed"

\* Lines 34-51: addWallet(chatId, address).  An invalid address throws
\* before anything changes.
AddWallet(chats, addresses, writes, max) ==
    /\ userCalls.count < max
    /\ \E chatId \in chats, address \in addresses, writeOk \in writes :
         IF ~IsValidAddress(address)
         THEN /\ userCalls' = Called(
                     [op |-> "add", chatId |-> chatId, address |-> address,
                      returned |-> Thrown, saved |-> FALSE])
              /\ UNCHANGED <<watchedWallets, file>>
         ELSE LET normalizedAddress == ToLowerCase(address)
                  had == IF chatId \in DOMAIN watchedWallets
                         THEN watchedWallets[chatId] ELSE {}
                  watched == (chatId :> (had \cup {normalizedAddress}))
                             @@ watchedWallets
              IN /\ watchedWallets' = watched
                 /\ file' = SaveWallets(file, watched, lastChecked, writeOk)
                 /\ userCalls' = Called(
                        [op |-> "add", chatId |-> chatId,
                         address |-> address,
                         returned |-> normalizedAddress, saved |-> writeOk])
    /\ UNCHANGED <<lastChecked, chain, runs, notified, posts>>
    /\ UNCHANGED analyzeVars

\* Mutant: a chat whose last address was removed stays in the map.
DeleteAddress_KeepChat(watched, chatId, normalizedAddress) ==
    [watched EXCEPT ![chatId] = @ \ {normalizedAddress}]

\* Lines 60-64: the address leaves the chat's set, and a chat whose set
\* became empty leaves the map.
DeleteAddress(watched, chatId, normalizedAddress) ==
    LET left == watched[chatId] \ {normalizedAddress}
    IN IF left = {} THEN MapDelete(watched, chatId)
       ELSE [watched EXCEPT ![chatId] = left]

\* Lines 56-73: removeWallet(chatId, address).
RemoveWallet(chats, addresses, writes, max) ==
    /\ userCalls.count < max
    /\ \E chatId \in chats, address \in addresses, writeOk \in writes :
         IF chatId \notin DOMAIN watchedWallets
         THEN /\ userCalls' = Called(
                     [op |-> "remove", chatId |-> chatId,
                      address |-> address, returned |-> FALSE,
                      saved |-> FALSE])
              /\ UNCHANGED <<watchedWallets, file>>
         ELSE LET watched == DeleteAddress(watchedWallets, chatId,
                                           ToLowerCase(address))
              IN /\ watchedWallets' = watched
                 /\ file' = SaveWallets(file, watched, lastChecked, writeOk)
                 /\ userCalls' = Called(
                        [op |-> "remove", chatId |-> chatId,
                         address |-> address, returned |-> TRUE,
                         saved |-> writeOk])
    /\ UNCHANGED <<lastChecked, chain, runs, notified, posts>>
    /\ UNCHANGED analyzeVars


\* ---------------------------------------------------------------- the chain
\* An address nothing has happened to yet.
Genesis == [balance |-> 0, txCount |-> 0, txs |-> <<>>]

\* What the chain holds for an address: balance stands for the ether text
\* of the n-th balance the address has had, txCount is its nonce, txs are
\* the transactions the explorer lists for it, oldest first.
ChainOf(a) == IF a \in DOMAIN chain THEN chain[a] ELSE Genesis

\* The chain events so far.
RECURSIVE SumBalances(_)
SumBalances(S) ==
    IF S = {} THEN 0
    ELSE LET a == CHOOSE x \in S : TRUE
         IN chain[a].balance + SumBalances(S \ {a})

ActivityCount == SumBalances(DOMAIN chain)

TxHash(a, n) == [kind |-> "hash", of |-> a.id, n |-> n]

\* Something happens to address a on the chain:
\*   sent      the wallet sends a transaction of category cat (nonce,
\*             balance and transaction list change);
\*   received  another account sends it ether (balance and list change);
\*   credited  a contract credits it ether in an internal transfer (only
\*             the balance changes).
Activity(addresses, kinds, max) ==
    /\ ActivityCount < max
    /\ \E a \in addresses, kind \in kinds,
          cat \in {"BUY", "SELL", "SWAP", "NONE"} :
         LET c == ChainOf(a)
             hash == TxHash(a, Len(c.txs) + 1)
         IN /\ kind # "sent" => cat = "NONE"
            /\ chain' = (a :>
                  [balance |-> c.balance + 1,
                   txCount |-> IF kind = "sent" THEN c.txCount + 1
                               ELSE c.txCount,
                   txs |-> IF kind = "credited" THEN c.txs
                           ELSE Append(c.txs,
                                       [hash |-> hash, type |-> cat,
                                        nonce |-> IF kind = "sent"
                                                  THEN c.txCount + 1
                                                  ELSE 0])])
                  @@ chain
    /\ UNCHANGED <<watchedWallets, lastChecked, file, runs, notified,
                   userCalls, posts>>
    /\ UNCHANGED analyzeVars

\* ------------------------------------------------------ checkWalletChanges
\* Mutant: every analysis is notified, the null one included.
Notifiable_Always(a) == TRUE

\* Line 136: analysis && (type is 'BUY', 'SELL' or 'SWAP').
Notifiable(a) == a # Null /\ a.type \in {"BUY", "SELL", "SWAP"}

\* Lines 85-96: getChatsForWallet(address).
GetChatsForWallet(watched, address) ==
    {chatId \in DOMAIN watched : ToLowerCase(address) \in watched[chatId]}

\* Lines 102-110: the addresses of all chats, each once.
AllAddresses(watched) ==
    ArrayFrom(UNION {watched[c] : c \in DOMAIN watched})

\* txCountChange || 1
HashLimit(txCountChange) == IF txCountChange = 0 THEN 1 ELSE txCountChange

RECURSIVE Reverse(_)
Reverse(s) == IF Len(s) = 0 THEN <<>> ELSE Reverse(Tail(s)) \o <<Head(s)>>

\* getLatestTransactionHashes(address, limit) when the explorer answers:
\* the hashes of the address's `limit` latest transactions, newest first.
LatestHashes(a, limit) ==
    LET txs == ChainOf(a).txs
        n == IF limit <= 0 THEN 0
             ELSE IF limit > Len(txs) THEN Len(txs) ELSE limit
    IN Reverse([i \in 1 .. n |-> txs[Len(txs) - n + i].hash])

\* blockchainService.analyzeTransaction(hash, address) as the tracker sees
\* it: an analysis of type BUY, SELL or SWAP, or null.
AnalysisOf(a, hash) ==
    LET t == ChainOf(a).txs[hash.n]
    IN IF t.type = "NONE" THEN Null ELSE [hash |-> hash, type |-> t.type]

StartedRun(watched) ==
    LET all == AllAddresses(watched)
    IN [st |-> IF Len(all) = 0 THEN "done" ELSE "balance", todo |-> all,
        balance |-> 0, txCount |-> 0, limit |-> 0, hashes |-> <<>>,
        hasChanges |-> FALSE, stored |-> <<>>, analyzed |-> <<>>,
        all |-> all, skipped |-> <<>>]

\* Run i is between its start and its end.
InProgress(i) == runs[i].st # "done"

\* startMonitoring's initial check or a tick of its interval timer (lines
\* 180-185): checkWalletChanges runs up to its first await.  `overlap`
\* tells whether a tick may come while an earlier run is still awaiting.
StartRun(max, overlap) ==
    /\ Len(runs) < max
    /\ overlap \/ \A i \in DOMAIN runs : ~InProgress(i)
    /\ runs' = Append(runs, StartedRun(watchedWallets))
    /\ UNCHANGED <<watchedWallets, lastChecked, file, chain, notified,
                   userCalls, posts>>
    /\ UNCHANGED analyzeVars

\* The run record after the current address is finished, by line 160 or by
\* the catch of line 162.
NextAddress(r) ==
    [r EXCEPT !.todo = Tail(r.todo),
              !.st = IF Len(r.todo) = 1 THEN "done" ELSE "balance",
              !.hashes = <<>>]

\* Lines 168-170: the save at the end of a run that saw changes.
EndOfRunFile(r, checked) ==
    IF r.st = "done" /\ r.hasChanges
    THEN SaveWallets(file, watchedWallets, checked, TRUE)
    ELSE file

\* Mutant: the stored entry forgets the transaction count.
Snapshot_ZeroCount(balance, txCount) == [balance |-> balance, txCount |-> 0]

\* Line 160: the object { balance, txCount }.
Snapshot(balance, txCount) == [balance |-> balance, txCount |-> txCount]

\* Line 118: lastChecked.get(address), undefined for an unknown address.
LastData(a) == IF a \in DOMAIN lastChecked THEN lastChecked[a] ELSE Undefined

\* Line 160 for the current address of r, then the next address.  The
\* history keeps what the poll read and what lastChecked held before.
StoreAndNext(i, r) ==
    LET a == Head(r.todo)
        checked == (a :> Snapshot(r.balance, r.txCount)) @@ lastChecked
        r2 == NextAddress([r EXCEPT !.stored =
                  Append(@, [address |-> a, balance |-> r.balance,
                             txCount |-> r.txCount,
                             before |-> LastData(a)])])
    IN /\ lastChecked' = checked
       /\ runs' = [runs EXCEPT ![i] = r2]
       /\ file' = EndOfRunFile(r2, checked)

\* Mutant: without the catch of line 162 the rejection ends the run.
SkipAddress_Raise(i, r) ==
    /\ runs' = [runs EXCEPT ![i] = [r EXCEPT !.st = "raised"]]
    /\ UNCHANGED <<lastChecked, file>>

\* The catch of line 162: the address is left as it was.  The history
\* keeps the address, its lastChecked entry and how many addresses the run
\* had stored by then.
SkipAddress(i, r) ==
    LET r2 == NextAddress([r EXCEPT !.skipped =
                  Append(@, [address |-> Head(r.todo),
                             before |-> LastData(Head(r.todo)),
                             stored |-> Len(r.stored)])])
    IN /\ runs' = [runs EXCEPT ![i] = r2]
       /\ file' = EndOfRunFile(r2, lastChecked)
       /\ UNCHANGED lastChecked

\* Line 115: getBalance answers or rejects.
ReadBalance(i, outcomes) ==
    /\ i \in DOMAIN runs /\ runs[i].st = "balance"
    /\ \E ok \in outcomes :
         IF ok
         THEN /\ runs' = [runs EXCEPT ![i] =
                    [@ EXCEPT !.st = "count",
                              !.balance =
                                  ChainOf(Head(runs[i].todo)).balance]]
              /\ UNCHANGED <<lastChecked, file>>
         ELSE SkipAddress(i, runs[i])
    /\ UNCHANGED <<watchedWallets, chain, notified, userCalls, posts>>
    /\ UNCHANGED analyzeVars

\* Lines 116-126 and 154-160: getTransactionCount answers or rejects; the
\* comparison with lastChecked; an address seen for the first time or
\* unchanged is stored at once.
ReadCount(i, outcomes) ==
    /\ i \in DOMAIN runs /\ runs[i].st = "count"
    /\ \E ok \in outcomes :
         IF ~ok THEN SkipAddress(i, runs[i])
         ELSE LET a == Head(runs[i].todo)
                  txCount == ChainOf(a).txCount
                  r == [runs[i] EXCEPT !.txCount = txCount]
              IN IF a \in DOMAIN lastChecked
                    /\ (lastChecked[a].balance # r.balance
                        \/ lastChecked[a].txCount # txCount)
                 THEN /\ runs' = [runs EXCEPT ![i] =
                            [r EXCEPT !.st = "hashes",
                                      !.limit = HashLimit(
                                          txCount - lastChecked[a].txCount)]]
                      /\ UNCHANGED <<lastChecked, file>>
                 ELSE StoreAndNext(i, r)
    /\ UNCHANGED <<watchedWallets, chain, notified, userCalls, posts>>
    /\ UNCHANGED analyzeVars


\* The invocations onChangeCallback(chatId, {address, transaction}) of lines
\* 140-143 for one analysis, in run i.  The callback startMonitoring is
\* given returns nothing to await, so the loop runs through.
Notifications(i, a, an, chatIds) ==
    LET arr == ArrayFrom(chatIds)
    IN [k \in DOMAIN arr |->
           [chatId |-> arr[k], address |-> a, transaction |-> an,
            run |-> i, batch |-> Len(runs[i].analyzed) + 1]]

\* Line 129: getLatestTransactionHashes answers the latest hashes, or an
\* empty list when both the explorer and the fallback fail.  Without
\* hashes the change block ends here (lines 152 and 160).
FetchHashes(i, outcomes) ==
    /\ i \in DOMAIN runs /\ runs[i].st = "hashes"
    /\ \E ok \in outcomes :
         LET a == Head(runs[i].todo)
             hashes == IF ok THEN LatestHashes(a, runs[i].limit) ELSE <<>>
         IN IF Len(hashes) = 0
            THEN StoreAndNext(i, [runs[i] EXCEPT !.hasChanges = TRUE])
            ELSE /\ runs' = [runs EXCEPT ![i] =
                       [@ EXCEPT !.st = "analyze", !.hashes = hashes]]
                 /\ UNCHANGED <<lastChecked, file>>
    /\ UNCHANGED <<watchedWallets, chain, notified, userCalls, posts>>
    /\ UNCHANGED analyzeVars

\* Lines 133-146 for the next hash: analyzeTransaction answers an analysis
\* or null; a notifiable analysis goes to every chat getChatsForWallet
\* returns.  After the last hash the change block ends (lines 152, 160).
AnalyzeHash(i, outcomes) ==
    /\ i \in DOMAIN runs /\ runs[i].st = "analyze"
    /\ \E ok \in outcomes :
         LET a == Head(runs[i].todo)
             h == Head(runs[i].hashes)
             an == IF ok THEN AnalysisOf(a, h) ELSE Null
             chatIds == IF Notifiable(an)
                        THEN GetChatsForWallet(watchedWallets, a) ELSE {}
             r == [runs[i] EXCEPT
                      !.hashes = Tail(@),
                      !.analyzed = Append(@,
                          [address |-> a, hash |-> h,
                           analysis |-> an,
                           trackers |-> {c \in DOMAIN watchedWallets :
                                           a \in watchedWallets[c]}])]
         IN /\ notified' = notified
                  \o Notifications(i, a, an, chatIds)
            /\ IF Len(r.hashes) = 0
               THEN StoreAndNext(i, [r EXCEPT !.hasChanges = TRUE])
               ELSE /\ runs' = [runs EXCEPT ![i] = r]
                    /\ UNCHANGED <<lastChecked, file>>
    /\ UNCHANGED <<watchedWallets, chain, userCalls, posts>>
    /\ UNCHANGED analyzeVars

\* The process stops and starts again: stopMonitoring's final save when the
\* stop is graceful (line 209), then the constructor's loadData (18-22).
\* Runs in progress end with the process.  The history keeps the number of
\* calls made and forgets the last one.
Restart(graceful) ==
    /\ userCalls.last # Null
    /\ \E g \in graceful :
         LET f == IF g THEN SaveWallets(file, watchedWallets, lastChecked,
                                        TRUE)
                  ELSE file
         IN /\ file' = f
            /\ watchedWallets' = LoadWallets(f).watchedWallets
            /\ lastChecked' = LoadWallets(f).lastChecked
    /\ runs' = [i \in DOMAIN runs |-> [runs[i] EXCEPT !.st = "done"]]
    /\ userCalls' = [userCalls EXCEPT !.last = Null]
    /\ UNCHANGED <<chain, notified, posts>>
    /\ UNCHANGED analyzeVars


\* ---------------------------------------------------- tracker specifications
MaxUserCalls == 2
MaxRuns == 2
MaxActivity == 1

\* A private chat and a group.
TrackerChats == {7, 0 - 100}

ActivityKinds == {"sent", "received", "credited"}

\* Polling with two chats and two addresses: both chats may track the
\* wallet, the group may also track the whale; the wallet has activity.
\* The users' calls and the chain's events come in any order between the
\* steps of runs that follow one another; the hash lookup and the analysis
\* may fail.
NextTracker ==
    \/ AddWallet(TrackerChats, {Addr("wallet", "checksum")}, {TRUE},
                 MaxUserCalls)
    \/ AddWallet({0 - 100}, {Addr("whale", "lower")}, {TRUE}, MaxUserCalls)
    \/ RemoveWallet(TrackerChats, {Addr("wallet", "checksum")}, {TRUE},
                    MaxUserCalls)
    \/ Activity({Addr("wallet", "lower")}, ActivityKinds, MaxActivity)
    \/ StartRun(MaxRuns, FALSE)
    \/ \E i \in 1 .. MaxRuns : ReadBalance(i, {TRUE})
    \/ \E i \in 1 .. MaxRuns : ReadCount(i, {TRUE})
    \/ \E i \in 1 .. MaxRuns : FetchHashes(i, BOOLEAN)
    \/ \E i \in 1 .. MaxRuns : AnalyzeHash(i, BOOLEAN)

SpecTracker == Init /\ [][NextTracker]_vars

\* The chats the callback was invoked for with the analysis of batch b of
\* run i, and how often for chat c.
NotifiedIn(i, b) ==
    {k \in DOMAIN notified : notified[k].run = i /\ notified[k].batch = b}

\* C23: during checkWalletChanges the callback is invoked only with an
\* analysis of type BUY, SELL or SWAP, and for each such analysis once for
\* every chat that tracks the changed address at that moment and for no
\* other chat.
C23_NotifyTrackersOfSwaps ==
    /\ \A k \in DOMAIN notified :
         /\ notified[k].transaction # Null
         /\ notified[k].transaction.type \in {"BUY", "SELL", "SWAP"}
    /\ \A i \in DOMAIN runs : \A b \in DOMAIN runs[i].analyzed :
         LET e == runs[i].analyzed[b]
             wanted == IF e.analysis # Null
                          /\ e.analysis.type \in {"BUY", "SELL", "SWAP"}
                       THEN e.trackers ELSE {}
         IN /\ {notified[k].chatId : k \in NotifiedIn(i, b)} = wanted
            /\ Cardinality(NotifiedIn(i, b)) = Cardinality(wanted)
            /\ \A k \in NotifiedIn(i, b) :
                 /\ notified[k].address = e.address
                 /\ notified[k].transaction = e.analysis

\* A trade was notified to the private chat alone while the group tracked
\* only the whale.
C23_Witness ==
    \E i \in DOMAIN runs : \E b \in DOMAIN runs[i].analyzed :
        /\ runs[i].analyzed[b].trackers = {7}
        /\ 0 - 100 \in DOMAIN watchedWallets
        /\ {notified[k].chatId : k \in NotifiedIn(i, b)} = {7}


\* One chat tracks the wallet, the wallet sends transactions, and runs
\* follow one another; the hash lookup and the analysis may fail.
NextLost ==
    \/ AddWallet({7}, {Addr("wallet", "checksum")}, {TRUE}, MaxUserCalls)
    \/ Activity({Addr("wallet", "lower")}, {"sent"}, MaxActivity)
    \/ StartRun(MaxRuns, FALSE)
    \/ \E i \in 1 .. MaxRuns : ReadBalance(i, {TRUE})
    \/ \E i \in 1 .. MaxRuns : ReadCount(i, {TRUE})
    \/ \E i \in 1 .. MaxRuns : FetchHashes(i, BOOLEAN)
    \/ \E i \in 1 .. MaxRuns : AnalyzeHash(i, BOOLEAN)

SpecLost == Init /\ [][NextLost]_vars

\* The poll recorded as e found the address changed (line 124).
DetectedChange(e) ==
    e.before # Undefined /\ e.before # Snapshot(e.balance, e.txCount)

\* The trades the address sent between the previous poll and the poll
\* recorded as e.
NewTrades(e) ==
    LET txs == ChainOf(e.address).txs
    IN {txs[t] : t \in {u \in DOMAIN txs :
                          /\ txs[u].nonce > e.before.txCount
                          /\ txs[u].nonce <= e.txCount
                          /\ txs[u].type \in {"BUY", "SELL", "SWAP"}}}

\* No run is in progress and lastChecked holds what the chain holds for
\* address a: no later poll finds a change unless something new happens.
Settled(a) ==
    /\ \A i \in DOMAIN runs : ~InProgress(i)
    /\ LastData(a) = Snapshot(ChainOf(a).balance, ChainOf(a).txCount)

\* C24: when a poll detects a change of a tracked wallet and the new
\* transaction is a BUY, SELL or SWAP, every chat tracking the wallet is
\* notified of it, whatever the outcome of the hash lookup and the analysis
\* in that poll.  Stated for the polls that are over: once the tracker has
\* settled on the chain's values, every new trade has been notified.
C24_NoTradeLost ==
    \A i \in DOMAIN runs : \A s \in DOMAIN runs[i].stored :
        LET e == runs[i].stored[s]
        IN (DetectedChange(e) /\ Settled(e.address)) =>
              \A t \in NewTrades(e) :
                  \A c \in GetChatsForWallet(watchedWallets, e.address) :
                      \E k \in DOMAIN notified :
                          /\ notified[k].chatId = c
                          /\ notified[k].transaction.hash = t.hash


\* Persistence: two chats add and remove two addresses; an address to add
\* is typed in EIP-55 case, in lowercase or with a broken checksum, and the
\* write of the data file after an add may fail; runs fill lastChecked; the
\* process restarts gracefully or not.
MaxStoreCalls == 2
MaxStoreRuns == 2

TrackedAddresses == {Addr("wallet", "lower"), Addr("whale", "lower")}

TypedAddresses ==
    {Addr("wallet", "checksum"), Addr("whale", "lower"),
     Addr("wallet", "mixed")}

NextStore ==
    \/ AddWallet(TrackerChats, TypedAddresses, BOOLEAN, MaxStoreCalls)
    \/ RemoveWallet(TrackerChats, TrackedAddresses, {TRUE}, MaxStoreCalls)
    \/ Restart(BOOLEAN)
    \/ Activity({Addr("wallet", "lower")}, {"received"}, MaxActivity)
    \/ StartRun(MaxStoreRuns, FALSE)
    \/ \E i \in 1 .. MaxStoreRuns : ReadBalance(i, {TRUE})
    \/ \E i \in 1 .. MaxStoreRuns : ReadCount(i, {TRUE})
    \/ \E i \in 1 .. MaxStoreRuns : FetchHashes(i, {TRUE})
    \/ \E i \in 1 .. MaxStoreRuns : AnalyzeHash(i, {TRUE})

SpecStore == Init /\ [][NextStore]_vars

\* The process has restarted and no call was made since.
JustRestarted == userCalls.count > 0 /\ userCalls.last = Null

\* C25: loading what saveWallets wrote yields the same chat-to-address-set
\* map, with numeric chat ids, and the same lastChecked map that were
\* saved; after a restart every chat tracks exactly the wallets of the last
\* save.
C25_SaveLoadRoundTrip ==
    LET written == SaveWallets(file, watchedWallets, lastChecked, TRUE)
        loaded == LoadWallets(written)
    IN /\ loaded.watchedWallets = watchedWallets
       /\ loaded.lastChecked = lastChecked
       /\ DOMAIN loaded.watchedWallets \subseteq Int
       /\ JustRestarted =>
             watchedWallets = LoadWallets(file).watchedWallets

\* After a restart the group (a negative chat id) tracks what it tracked
\* and lastChecked came back from the file.
C25_Witness ==
    /\ JustRestarted
    /\ file # Undefined
    /\ 0 - 100 \in DOMAIN watchedWallets
    /\ DOMAIN lastChecked # {}

MaxSoloCalls == 3
MaxSoloRuns == 3
MaxSoloActivity == 2

NextSolo ==
    \/ AddWallet({7}, {Addr("wallet", "checksum")}, {TRUE}, MaxSoloCalls)
    \/ RemoveWallet({7}, {Addr("wallet", "checksum")}, {TRUE}, MaxSoloCalls)
    \/ Activity({Addr("wallet", "lower")}, ActivityKinds, MaxSoloActivity)
    \/ StartRun(MaxSoloRuns, FALSE)
    \/ \E i \in 1 .. MaxSoloRuns : ReadBalance(i, {TRUE})
    \/ \E i \in 1 .. MaxSoloRuns : ReadCount(i, {TRUE})
    \/ \E i \in 1 .. MaxSoloRuns : FetchHashes(i, {TRUE})
    \/ \E i \in 1 .. MaxSoloRuns : AnalyzeHash(i, {TRUE})

SpecSolo == Init /\ [][NextSolo]_vars

\* C27: across any sequence of polls no transaction hash is notified to
\* the same chat more than once.
C27_NotifiedOnce ==
    \A j, k \in DOMAIN notified :
        (/\ notified[j].chatId = notified[k].chatId
         /\ notified[j].transaction.hash = notified[k].transaction.hash)
            => j = k


\* C30: when removeWallet leaves an address tracked by no chat, no
\* lastChecked entry for that address survives.
C30_NoEntryForUntracked ==
    (/\ userCalls.last # Null
     /\ userCalls.last.op = "remove"
     /\ GetChatsForWallet(watchedWallets, userCalls.last.address) = {})
        => ToLowerCase(userCalls.last.address) \notin DOMAIN lastChecked


\* The interval timer of startMonitoring (lines 183-185) fires whether or
\* not the previous run has returned: a tick may start a run while an
\* earlier one is still awaiting a network call.
MaxOverlapRuns == 3

NextOverlap ==
    \/ AddWallet({7}, {Addr("wallet", "checksum")}, {TRUE}, MaxUserCalls)
    \/ Activity({Addr("wallet", "lower")}, {"sent"}, MaxActivity)
    \/ StartRun(MaxOverlapRuns, TRUE)
    \/ \E i \in 1 .. MaxOverlapRuns : ReadBalance(i, {TRUE})
    \/ \E i \in 1 .. MaxOverlapRuns : ReadCount(i, {TRUE})
    \/ \E i \in 1 .. MaxOverlapRuns : FetchHashes(i, {TRUE})
    \/ \E i \in 1 .. MaxOverlapRuns : AnalyzeHash(i, {TRUE})

SpecOverlap == Init /\ [][NextOverlap]_vars

\* C28: at most one checkWalletChanges run is in progress at any time.
C28_OneRunAtATime ==
    \A i, j \in DOMAIN runs : (InProgress(i) /\ InProgress(j)) => i = j


\* One chat and one wallet; runs follow one another and every network call
\* of a run may fail.
NextPoll ==
    \/ AddWallet({7}, {Addr("wallet", "checksum")}, {TRUE}, MaxUserCalls)
    \/ RemoveWallet({7}, {Addr("wallet", "checksum")}, {TRUE}, MaxUserCalls)
    \/ Activity({Addr("wallet", "lower")}, ActivityKinds, MaxActivity)
    \/ StartRun(MaxRuns, FALSE)
    \/ \E i \in 1 .. MaxRuns : ReadBalance(i, BOOLEAN)
    \/ \E i \in 1 .. MaxRuns : ReadCount(i, BOOLEAN)
    \/ \E i \in 1 .. MaxRuns : FetchHashes(i, BOOLEAN)
    \/ \E i \in 1 .. MaxRuns : AnalyzeHash(i, BOOLEAN)

SpecPoll == Init /\ [][NextPoll]_vars

\* The runs that polled address a with success so far.
PollsOf(a) ==
    {i \in DOMAIN runs :
        \E s \in DOMAIN runs[i].stored : runs[i].stored[s].address = a}

\* C29: the first poll of an address without a lastChecked entry records
\* its balance and transaction count and invokes no callback and no
\* analysis; after every successful poll of an address lastChecked[address]
\* equals the balance and count read in that poll.
C29_FirstPollSilentAndStored ==
    /\ \A i \in DOMAIN runs : \A s \in DOMAIN runs[i].stored :
         LET e == runs[i].stored[s]
         IN e.before = Undefined =>
               /\ \A b \in DOMAIN runs[i].analyzed :
                      runs[i].analyzed[b].address # e.address
               /\ \A k \in DOMAIN notified :
                      ~(notified[k].run = i
                        /\ notified[k].address = e.address)
    /\ \A a \in DOMAIN lastChecked : PollsOf(a) # {}
    /\ \A i \in DOMAIN runs : \A s \in DOMAIN runs[i].stored :
         LET e == runs[i].stored[s]
         IN /\ e.address \in DOMAIN lastChecked
            /\ (\A p \in PollsOf(e.address) : p <= i) =>
                  /\ lastChecked[e.address].balance = e.balance
                  /\ lastChecked[e.address].txCount = e.txCount

\* A wallet that had already sent a trade was polled for the first time:
\* its count was stored and nobody was notified.
C29_Witness ==
    \E i \in DOMAIN runs : \E s \in DOMAIN runs[i].stored :
        /\ runs[i].stored[s].before = Undefined
        /\ runs[i].stored[s].txCount > 0
        /\ ChainOf(runs[i].stored[s].address).txs[1].type = "SWAP"
        /\ notified = <<>>


\* The group tracks two addresses; runs follow one another and the balance
\* and count reads of every address may fail.
NextSkip ==
    \/ AddWallet({0 - 100}, TrackedAddresses, {TRUE}, MaxUserCalls)
    \/ Activity({Addr("wallet", "lower")}, {"sent"}, MaxActivity)
    \/ StartRun(MaxRuns, FALSE)
    \/ \E i \in 1 .. MaxRuns : ReadBalance(i, BOOLEAN)
    \/ \E i \in 1 .. MaxRuns : ReadCount(i, BOOLEAN)
    \/ \E i \in 1 .. MaxRuns : FetchHashes(i, {TRUE})
    \/ \E i \in 1 .. MaxRuns : AnalyzeHash(i, {TRUE})

SpecSkip == Init /\ [][NextSkip]_vars

\* The addresses run r has finished with, by a store or by a failed read.
Polled(r) ==
    {r.stored[s].address : s \in DOMAIN r.stored}
        \cup {r.skipped[k].address : k \in DOMAIN r.skipped}

\* C31: a failure reading one address's balance or transaction count
\* leaves lastChecked unchanged and the run goes on with the next address;
\* a run never raises, and when it is over every address it started with
\* was polled.
C31_FailedReadSkipsAddress ==
    [][\A i \in DOMAIN runs :
         /\ runs'[i].st # "raised"
         /\ Len(runs'[i].skipped) > Len(runs[i].skipped) =>
               /\ lastChecked' = lastChecked
               /\ runs'[i].todo = Tail(runs[i].todo)
               /\ runs'[i].st = IF Len(runs[i].todo) = 1 THEN "done"
                                ELSE "balance"
         /\ runs'[i].st = "done" =>
               Polled(runs'[i]) = SetFrom(runs'[i].all)]_vars

\* A read failed for an address that had a lastChecked entry, the entry is
\* still the same, and the run went on to store another address.
C31_Witness ==
    \E i \in DOMAIN runs : \E k \in DOMAIN runs[i].skipped :
        LET e == runs[i].skipped[k]
        IN /\ runs[i].st = "done"
           /\ e.before # Undefined
           /\ LastData(e.address) = e.before
           /\ e.stored < Len(runs[i].stored)


\* The fields of call i whose read was made and rejected.
FailedFields(i) ==
    IF ~calls[i].wrote THEN {}
    ELSE {f \in {"symbol", "name", "decimals"} : ~calls[i].rd[f]}

\* The sentinel of a field.
FieldSentinel(f) ==
    [symbol |-> [kind |-> "string", v |-> SentinelSymbol],
     name |-> [kind |-> "string", v |-> SentinelName],
     decimals |-> [kind |-> "number", v |-> SentinelDecimals]][f]

\* Field f of a TokenInfo.
FieldOf(info, f) ==
    [symbol |-> [kind |-> "string", v |-> info.symbol],
     name |-> [kind |-> "string", v |-> info.name],
     decimals |-> [kind |-> "number", v |-> info.decimals]][f]

\* C32 as stated: after a call in which a field's read failed, every later
\* call for the address returns the sentinel for that field without
\* reading; only the whole-call fallback returns a TokenInfo it did not
\* cache.
C32_SentinelForEveryLaterCall ==
    /\ \A i \in DOMAIN calls, j \in DOMAIN calls :
          (ReturnedBefore(i, j) /\ FailedFields(i) # {})
              => /\ calls[j].reads = 0
                 /\ \A f \in FailedFields(i) :
                        FieldOf(calls[j].info, f) = FieldSentinel(f)
    /\ \A i \in DOMAIN calls :
          (calls[i].st = "returned" /\ ~calls[i].hit)
              => (calls[i].fallback <=> ~calls[i].wrote)

\* C32 amended: the TokenInfo with the sentinel is stored, so a later call
\* for the address makes no read and returns the cached entry: the one with
\* the sentinel, unless a call that was already awaiting its reads stored
\* its own TokenInfo in between.  Only the whole-call fallback returns a
\* TokenInfo it did not cache.
C32_SentinelIsCached ==
    /\ \A i \in DOMAIN calls, j \in DOMAIN calls :
          (ReturnedBefore(i, j) /\ FailedFields(i) # {})
              => /\ calls[j].reads = 0
                 /\ calls[j].hit
                 /\ IF WritersBetween(i, j) = {}
                    THEN \A f \in FailedFields(i) :
                             FieldOf(calls[j].info, f) = FieldSentinel(f)
                    ELSE \E k \in WritersBetween(i, j) :
                             /\ calls[k].startNo < calls[i].returnNo
                             /\ calls[j].info = calls[k].info
    /\ \A i \in DOMAIN calls :
          (calls[i].st = "returned" /\ ~calls[i].hit)
              => /\ calls[i].fallback <=> ~calls[i].wrote
                 /\ calls[i].fallback =>
                        calls[i].info = SentinelInfo(calls[i].address)

\* The symbol read of a first call failed, and a later call in another
\* letter case got the sentinel symbol from the cache.
C32_Witness ==
    \E i \in DOMAIN calls, j \in DOMAIN calls :
        /\ ReturnedBefore(i, j)
        /\ "symbol" \in FailedFields(i)
        /\ calls[i].address # calls[j].address
        /\ calls[j].hit
        /\ calls[j].info.symbol = SentinelSymbol
        /\ calls[j].info.name # SentinelName


\* C33: in every SWAP result tokenIn and tokenOut are two different
\* transfer events of the transaction.  tokenIn is the event at the first
\* position sent by the wallet and tokenOut the event at the first position
\* received by it (C1): they must be different positions.
C33_SwapLegsDiffer ==
    (Classified /\ IsAnalysis(result) /\ result.type = "SWAP")
        => FirstSent # FirstReceived


\* This step is an addWallet or removeWallet call.
CallStep == userCalls'.count = userCalls.count + 1

\* Before the step, the chat tracked the address, compared without regard
\* to letter case.
TrackedBefore(chatId, address) ==
    /\ chatId \in DOMAIN watchedWallets
    /\ ToLowerCase(address) \in watchedWallets[chatId]

\* C34: removeWallet(chatId, address) returns true exactly when the
\* address was tracked by that chat before the call; when it returns false
\* the tracked state and the stored file are unchanged.
C34_RemoveReturnsWasTracked ==
    [][(CallStep /\ userCalls'.last.op = "remove") =>
          LET call == userCalls'.last
          IN /\ call.returned
                    <=> TrackedBefore(call.chatId, call.address)
             /\ ~call.returned =>
                    /\ watchedWallets' = watchedWallets
                    /\ file' = file]_vars


\* ------------------------------------------------- sendWalletNotification
\* config.channelId: the CHANNEL_ID text, empty when none is configured.
NoChannel == [kind |-> "string", chars |-> <<>>]
ChannelId == KeyOf(0 - 1001)

\* The messages of one sendWalletNotification(chatId, change), bot.js
\* 355-372: the message to the chat; after it was sent, and with a channel
\* configured, the message to the channel, whose failure is caught on its
\* own.  A failed send to the chat skips the channel.
MessagesFor(k, channelId, chatOk, channelOk) ==
    <<[target |-> "chat", chatId |-> notified[k].chatId,
       notification |-> k, ok |-> chatOk]>>
    \o (IF chatOk /\ Len(channelId.chars) > 0
        THEN <<[target |-> "channel", chatId |-> notified[k].chatId,
                notification |-> k, ok |-> channelOk]>>
        ELSE <<>>)

\* bot.js 337-373: the callback's call of sendWalletNotification for the
\* next invocation recorded in notified.  Without a transaction or a
\* summary it returns at once; it never rejects.
SendWalletNotification(channelId, chatOutcomes, channelOutcomes) ==
    /\ posts.handled < Len(notified)
    /\ LET k == posts.handled + 1
           transaction == notified[k].transaction
       IN IF transaction = Null
             \/ transaction.type \notin {"BUY", "SELL", "SWAP"}
          THEN posts' = [posts EXCEPT !.handled = k]
          ELSE \E chatOk \in chatOutcomes, channelOk \in channelOutcomes :
                 posts' = [handled |-> k,
                           sent |-> posts.sent
                               \o MessagesFor(k, channelId, chatOk,
                                              channelOk)]
    /\ UNCHANGED <<watchedWallets, lastChecked, file, chain, runs, notified,
                   userCalls>>
    /\ UNCHANGED analyzeVars

\* A channel is configured; two chats may track the wallet; the wallet
\* trades; the message to the channel may fail.
NextChannel ==
    \/ AddWallet(TrackerChats, {Addr("wallet", "checksum")}, {TRUE},
                 MaxUserCalls)
    \/ Activity({Addr("wallet", "lower")}, {"sent"}, MaxActivity)
    \/ StartRun(MaxRuns, FALSE)
    \/ \E i \in 1 .. MaxRuns : ReadBalance(i, {TRUE})
    \/ \E i \in 1 .. MaxRuns : ReadCount(i, {TRUE})
    \/ \E i \in 1 .. MaxRuns : FetchHashes(i, {TRUE})
    \/ \E i \in 1 .. MaxRuns : AnalyzeHash(i, {TRUE})
    \/ SendWalletNotification(ChannelId, {TRUE}, BOOLEAN)

SpecChannel == Init /\ [][NextChannel]_vars

\* The messages sent or tried for the analysis of batch b of run i.
PostsFor(i, b, target) ==
    {m \in DOMAIN posts.sent :
        /\ posts.sent[m].target = target
        /\ posts.sent[m].notification \in NotifiedIn(i, b)}

\* C35: with a channel configured, each notifiable transaction detected by
\* a poll is posted to every tracking chat and exactly once to the channel,
\* however many chats track the wallet; whether the channel post fails or
\* not, the chat has its message.
C35_ChannelPostedOnce ==
    \A i \in DOMAIN runs : \A b \in DOMAIN runs[i].analyzed :
        (/\ NotifiedIn(i, b) # {}
         /\ \A k \in NotifiedIn(i, b) : k <= posts.handled)
            => /\ Cardinality(PostsFor(i, b, "channel")) = 1
               /\ \A k \in NotifiedIn(i, b) :
                      \E m \in PostsFor(i, b, "chat") :
                          /\ posts.sent[m].notification = k
                          /\ posts.sent[m].ok


\* ------------------------------------------- getLatestTransactionHashes
\* Longest transfer list of an Alchemy answer and longest explorer result.
MaxListed == 2
\* Largest limit asked for.
MaxLimit == 2

\* Three transactions: an older one, and two of one later block.  Block
\* numbers are hex texts, and "0x10" sorts before "0xa" as a text.
ListedHashes == {"0xh1", "0xh2", "0xh3"}

BlockNum(hash) ==
    IF hash = "0xh1" THEN <<"0", "x", "a">> ELSE <<"0", "x", "1", "0">>

HexDigit(c) ==
    CASE c = "a" -> 10 [] c = "b" -> 11 [] c = "c" -> 12 [] c = "d" -> 13
      [] c = "e" -> 14 [] c = "f" -> 15 [] OTHER -> CharDigit(c)

\* parseInt(text, 16) of a "0x..." text.
RECURSIVE HexValue(_)
HexValue(digits) ==
    IF Len(digits) = 0 THEN 0
    ELSE 16 * HexValue(SubSeq(digits, 1, Len(digits) - 1))
         + HexDigit(digits[Len(digits)])

ParseHex(text) == HexValue(SubSeq(text, 3, Len(text)))

\* Mutant: the hashes are not deduplicated.
UniqueHashes_All(hashes) == hashes

\* [...new Set(hashes)]: each hash once, in order of first appearance.
RECURSIVE UniqueHashes(_)
UniqueHashes(hashes) ==
    IF Len(hashes) = 0 THEN <<>>
    ELSE LET front == UniqueHashes(SubSeq(hashes, 1, Len(hashes) - 1))
             last == hashes[Len(hashes)]
         IN IF \E i \in DOMAIN front : front[i] = last THEN front
            ELSE Append(front, last)

\* allTransfers.find(t => t.hash === hash).blockNum, parsed.
BlockOf(allTransfers, hash) ==
    LET i == CHOOSE j \in DOMAIN allTransfers :
                 /\ allTransfers[j].hash = hash
                 /\ \A k \in 1 .. j - 1 : allTransfers[k].hash # hash
    IN ParseHex(allTransfers[i].blockNum)

\* Array.prototype.sort with (a, b) => b.blockNum - a.blockNum: descending
\* and stable.
RECURSIVE InsertByBlock(_, _)
InsertByBlock(sorted, item) ==
    IF Len(sorted) = 0 THEN <<item>>
    ELSE IF sorted[Len(sorted)].blockNum >= item.blockNum
    THEN Append(sorted, item)
    ELSE Append(InsertByBlock(SubSeq(sorted, 1, Len(sorted) - 1), item),
                sorted[Len(sorted)])

RECURSIVE SortByBlockDesc(_)
SortByBlockDesc(items) ==
    IF Len(items) = 0 THEN <<>>
    ELSE InsertByBlock(SortByBlockDesc(SubSeq(items, 1, Len(items) - 1)),
                       items[Len(items)])

\* x.transfers || []
TransfersOrEmpty(answer) ==
    IF answer.kind = "array" THEN answer.items ELSE <<>>

\* Lines 164-212: getTransactionHashesFromAlchemy(address, limit).  The
\* answer is the two transfer lists, or a rejection of one of the three
\* provider calls, which the catch turns into [].
GetTransactionHashesFromAlchemy(alchemy, limit) ==
    IF ~alchemy.ok THEN <<>>
    ELSE LET allTransfers == TransfersOrEmpty(alchemy.sent)
                                 \o TransfersOrEmpty(alchemy.received)
             uniqueHashes == UniqueHashes(
                 [i \in DOMAIN allTransfers |-> allTransfers[i].hash])
             items == [i \in DOMAIN uniqueHashes |->
                          [hash |-> uniqueHashes[i],
                           blockNum |-> BlockOf(allTransfers,
                                                uniqueHashes[i])]]
             sorted == SortByBlockDesc(items)
             n == IF limit < Len(sorted) THEN limit ELSE Len(sorted)
         IN [i \in 1 .. n |-> sorted[i].hash]

\* Line 233: data.status === '1' && data.result && Array.isArray(data.result)
ExplorerSucceeded(explorer) ==
    /\ explorer.kind = "json"
    /\ explorer.status = "1"
    /\ explorer.result.kind = "array"

\* Lines 217-246: getLatestTransactionHashes(address, limit) with or
\* without an API key, for an answer of the explorer and one of Alchemy.
GetLatestTransactionHashes(hasKey, explorer, alchemy, limit) ==
    IF hasKey /\ ExplorerSucceeded(explorer)
    THEN [kind |-> "array", source |-> "explorer",
          items |-> [i \in DOMAIN explorer.result.items |->
                        explorer.result.items[i].hash]]
    ELSE [kind |-> "array", source |-> "alchemy",
          items |-> GetTransactionHashesFromAlchemy(alchemy, limit)]

\* The transfer lists Alchemy may answer.
TransferLists ==
    {Undefined} \cup
    {[kind |-> "array", items |-> items] :
        items \in UNION {[1 .. n -> {[hash |-> h, blockNum |-> BlockNum(h)] :
                                        h \in ListedHashes}] :
                            n \in 0 .. MaxListed}}

AlchemyAnswers ==
    {[ok |-> FALSE]} \cup
    {[ok |-> TRUE, sent |-> s, received |-> r] :
        s \in TransferLists, r \in TransferLists}

\* What the explorer request may give: a failed fetch or body, an error
\* status with a text result, status '1' with a list of transactions, and
\* status '1' with a result that is no list.
ExplorerAnswers ==
    {[kind |-> "rejected"],
     [kind |-> "json", status |-> "0",
      result |-> [kind |-> "string", v |-> "Max rate limit reached"]],
     [kind |-> "json", status |-> "1",
      result |-> [kind |-> "string", v |-> "OK"]],
     [kind |-> "json", status |-> "1", result |-> Null]}
    \cup
    {[kind |-> "json", status |-> s,
      result |-> [kind |-> "array", items |-> items]] :
        s \in {"0", "1"},
        items \in UNION {[1 .. n -> {[hash |-> h] : h \in ListedHashes}] :
                            n \in 0 .. MaxListed}}

\* One getLatestTransactionHashes call.
LookupHashes ==
    /\ lookup = Undefined
    /\ \E hasKey \in BOOLEAN, explorer \in ExplorerAnswers,
          alchemy \in AlchemyAnswers, limit \in 1 .. MaxLimit :
         lookup' = [hasKey |-> hasKey, explorer |-> explorer,
                    alchemy |-> alchemy, limit |-> limit,
                    returned |-> GetLatestTransactionHashes(
                                     hasKey, explorer, alchemy, limit)]
    /\ UNCHANGED <<analysisVars, trackerVars>>

NextLookup == LookupHashes

SpecLookup == Init /\ [][NextLookup]_vars

Looked == "returned" \in DOMAIN lookup

\* C36: getLatestTransactionHashes never raises; it returns the explorer's
\* hashes exactly when a key is configured and the response has status '1'
\* with an array result; otherwise it returns the Alchemy lookup's result,
\* a list of distinct hashes in descending block order no longer than the
\* limit, empty when that lookup fails.
C36_ExplorerOrAlchemy ==
    Looked =>
      LET r == lookup.returned
          viaExplorer == /\ lookup.hasKey
                         /\ lookup.explorer.kind = "json"
                         /\ lookup.explorer.status = "1"
                         /\ lookup.explorer.result.kind = "array"
      IN /\ r.kind = "array"
         /\ viaExplorer <=> r.source = "explorer"
         /\ viaExplorer =>
               /\ Len(r.items) = Len(lookup.explorer.result.items)
               /\ \A i \in DOMAIN r.items :
                      r.items[i] = lookup.explorer.result.items[i].hash
         /\ ~viaExplorer =>
               /\ Len(r.items) <= lookup.limit
               /\ \A i, j \in DOMAIN r.items :
                      r.items[i] = r.items[j] => i = j
               /\ \A i, j \in DOMAIN r.items :
                      i < j => ParseHex(BlockNum(r.items[i]))
                                   >= ParseHex(BlockNum(r.items[j]))
               /\ ~lookup.alchemy.ok => r.items = <<>>
               /\ lookup.alchemy.ok =>
                      \A i \in DOMAIN r.items :
                          \E t \in DOMAIN (TransfersOrEmpty(lookup.alchemy.sent)
                                  \o TransfersOrEmpty(lookup.alchemy.received)) :
                              (TransfersOrEmpty(lookup.alchemy.sent)
                                  \o TransfersOrEmpty(lookup.alchemy.received))[t]
                                  .hash = r.items[i]

\* With a key and an error status the Alchemy answer was used: a
\* transaction listed as sent and as received is returned once, after the
\* one of the later block.
C36_Witness ==
    /\ Looked
    /\ lookup.hasKey /\ lookup.explorer.kind = "json"
    /\ lookup.explorer.status = "0"
    /\ lookup.explorer.result.kind = "array"
    /\ lookup.alchemy.ok
    /\ lookup.alchemy.sent.kind = "array"
    /\ lookup.alchemy.received.kind = "array"
    /\ Len(lookup.alchemy.sent.items) = 2
    /\ Len(lookup.alchemy.received.items) = 1
    /\ lookup.alchemy.sent.items[1].hash = "0xh1"
    /\ lookup.alchemy.sent.items[2].hash = "0xh2"
    /\ lookup.alchemy.received.items[1].hash = "0xh1"
    /\ lookup.limit = 2
    /\ lookup.returned.items = <<"0xh2", "0xh1">>


\* ------------------------------------------------ addWallet, removeWallet
\* Calls of one spec that types every letter case.
MaxCasedCalls == 3

\* One wallet in each letter case, and a second wallet.
CasedAddresses ==
    {Addr("wallet", f) : f \in Forms} \cup {Addr("whale", "lower")}

NextCased ==
    \/ AddWallet(TrackerChats, CasedAddresses, {TRUE}, MaxCasedCalls)
    \/ RemoveWallet(TrackerChats, CasedAddresses, {TRUE}, MaxCasedCalls)

SpecCased == Init /\ [][NextCased]_vars

\* Every chat of the map has an address, and every address is lowercase.
WellFormedWatched ==
    \A chatId \in DOMAIN watchedWallets :
        /\ watchedWallets[chatId] # {}
        /\ \A a \in watchedWallets[chatId] : a.form = "lower"

\* C37: after any sequence of addWallet and removeWallet calls from an
\* empty tracker every chat id in watchedWallets maps to a non-empty set of
\* lowercase addresses; an addWallet with an invalid address raises and
\* changes nothing, and adding an address the chat already tracks, in any
\* letter case, changes nothing.
C37_WatchedWellFormed ==
    /\ []WellFormedWatched
    /\ [][(CallStep /\ userCalls'.last.op = "add") =>
            LET call == userCalls'.last
            IN /\ ~IsValidAddress(call.address) =>
                     /\ call.returned = Thrown
                     /\ watchedWallets' = watchedWallets
                     /\ lastChecked' = lastChecked
               /\ TrackedBefore(call.chatId, call.address) =>
                     /\ watchedWallets' = watchedWallets
                     /\ lastChecked' = lastChecked]_vars

\* Two wallets were added to a chat and then an add with a broken checksum
\* raised; no other chat is in the map.
C37_Witness ==
    /\ userCalls.count = 3
    /\ userCalls.last # Null
    /\ userCalls.last.op = "add"
    /\ userCalls.last.address = Addr("wallet", "mixed")
    /\ userCalls.last.returned = Thrown
    /\ DOMAIN watchedWallets = {7}
    /\ watchedWallets[7] = {Addr("wallet", "lower"), Addr("whale", "lower")}

====
